---- MODULE Spec2Model ----
(***************************************************************************)
(* Verification model of the spatial preprocessing layer of geoapps:       *)
(*   geoapps/inversion/utils.py  (tile_locations, preprocess_data,         *)
(*       set_infinity_uncertainties, create_nested_mesh,                   *)
(*       calculate_2D_trend)                                               *)
(*   geoapps/utils/surveys.py    (traveling_salesman, survey_lines,        *)
(*       slice_and_map)                                                    *)
(*   geoapps/octree_creation/driver.py  (OctreeDriver.octree_from_params)  *)
(*   geoapps/inversion/joint/driver.py                                     *)
(*       (BaseJointDriver.validate_create_mesh)                            *)
(*   geoapps/inversion/joint/single_property/driver.py                     *)
(*       (JointSingleDriver.initialize)                                    *)
(*                                                                         *)
(* Every function is a small state machine over its own variables; `pc`    *)
(* is the position in the function under study.  Coordinates are integers  *)
(* and every comparison of distances or percentiles is made on exactly     *)
(* scaled integers (squared distances, percentiles times the number of     *)
(* bins), i.e. the arithmetic is exact where numpy rounds to doubles.      *)
(***************************************************************************)
EXTENDS Integers, Sequences, FiniteSets, TLC

VARIABLES
    pc,            \* position in the function under study
    method,        \* argument `method` of the function under study
    ii,            \* loop counter of the function under study
    locations,     \* point rows <<x, y>> handed to the function under study
    n_tiles,       \* tile_locations: argument n_tiles
    nTx,           \* tile_locations: number of percentile bins along x
    nTy,           \* tile_locations: number of percentile bins along y
    labels,        \* tile_locations: label of each location
    binCount,      \* tile_locations: binCount array
    tile_id,       \* tile_locations: np.unique(labels)
    tiles,         \* tile_locations: returned list of index arrays
    counts,        \* tile_locations: returned binCount[binCount > 0]
    values,        \* calculate_2D_trend: argument values
    order,         \* calculate_2D_trend: argument order
    loc_xy,        \* calculate_2D_trend: rows selected for the fit
    polynomial,    \* calculate_2D_trend: shape <<rows, columns>> of polynomial
    params,        \* calculate_2D_trend: returned coefficients
    visit_order,   \* traveling_salesman: the list `order`
    mask,          \* traveling_salesman: rows not yet visited
    current,       \* traveling_salesman: row visited last
    start_loc,     \* survey_lines: argument start_loc
    nodes,         \* survey_lines: rows not yet traversed
    inds,          \* survey_lines: rows in traversal order
    lines,         \* survey_lines: line id of each traversed row
    line_id,       \* survey_lines: current line id
    distances,     \* survey_lines: squared steps of the current line
    loc,           \* survey_lines: location being traversed
    n_neighbors,   \* survey_lines: neighbours asked of the kd-tree by next_neighbor
    line_ids,      \* survey_lines: returned array
    ignore_values, \* set_infinity_uncertainties / preprocess_data: argument ignore_values
    forward_only,  \* set_infinity_uncertainties / preprocess_data: argument forward_only
    components,    \* set_infinity_uncertainties / preprocess_data: list of active components
    data_dict,     \* set_infinity_uncertainties / preprocess_data: data_dict, updated in place
    data_in,       \* set_infinity_uncertainties / preprocess_data: data_dict as it was handed in
    ignore_value,  \* set_infinity_uncertainties / preprocess_data: parsed ignore value
    ignore_type,   \* set_infinity_uncertainties / preprocess_data: parsed ignore type
    param_dict,    \* preprocess_data: argument param_dict
    detrend_type,  \* preprocess_data: argument detrend_type
    detrend_order, \* preprocess_data: argument detrend_order
    update_dict,   \* preprocess_data: returned dictionary
    base_mesh,     \* create_nested_mesh: argument base_mesh
    padding_cells, \* create_nested_mesh: argument padding_cells
    minimum_level, \* create_nested_mesh: argument minimum_level
    finalize,      \* create_nested_mesh: argument finalize
    nested_mesh,   \* create_nested_mesh: the TreeMesh being built
    pad_distance,  \* create_nested_mesh: radius of the current shell
    returned,      \* create_nested_mesh: value returned
    obj,           \* slice_and_map: argument obj, a sequence of rows
    slicer,        \* slice_and_map: argument slicer
    sliced_object, \* slice_and_map: returned sliced array
    g2l,           \* slice_and_map: returned global to local map
    free_parameter_dict,\* OctreeDriver.octree_from_params: params.free_parameter_dict with the values of params
    level,         \* OctreeDriver.octree_from_params: params.minimum_level
    u_cell_size,   \* OctreeDriver.octree_from_params: params.u_cell_size
    treemesh,      \* OctreeDriver.octree_from_params: the TreeMesh and the calls it received
    octree,        \* OctreeDriver.octree_from_params: the Octree returned
    params_mesh,   \* BaseJointDriver.validate_create_mesh: self.params.mesh
    inversion_mesh,\* BaseJointDriver.validate_create_mesh: self.inversion_mesh.mesh: origin, h[dim][0], len(h[dim])
    drivers,       \* BaseJointDriver.validate_create_mesh: self.drivers: the mesh of each sub-driver
    drivers_in,    \* BaseJointDriver.validate_create_mesh: self.drivers as they were on entry
    cell_size,     \* BaseJointDriver.validate_create_mesh: the list cell_size
    groups,        \* JointSingleDriver.initialize: params.group_a, group_b, group_c
    sub_drivers,   \* JointSingleDriver.initialize: the list drivers
    physical_property,\* JointSingleDriver.initialize: the local physical_property
    local_actives  \* JointSingleDriver.initialize: the list local_actives

tileVars == <<n_tiles, nTx, nTy, labels, binCount, tile_id, tiles, counts>>

trendVars == <<values, order, loc_xy, polynomial, params>>

tspVars == <<visit_order, mask, current>>

surveyVars ==
    <<start_loc, nodes, inds, lines, line_id, distances, loc, n_neighbors,
      line_ids>>

ignoreVars ==
    <<ignore_values, forward_only, components, data_dict, data_in,
      ignore_value, ignore_type>>

preVars == <<param_dict, detrend_type, detrend_order, update_dict>>

meshVars ==
    <<base_mesh, padding_cells, minimum_level, finalize, nested_mesh,
      pad_distance, returned>>

sliceVars == <<obj, slicer, sliced_object, g2l>>

octreeVars == <<free_parameter_dict, level, u_cell_size, treemesh, octree>>

jointVars == <<params_mesh, inversion_mesh, drivers, drivers_in, cell_size>>

singleVars == <<groups, sub_drivers, physical_property, local_actives>>

vars ==
    <<pc, method, ii, locations,
      tileVars,
      trendVars,
      tspVars,
      surveyVars,
      ignoreVars,
      preVars,
      meshVars,
      sliceVars,
      octreeVars,
      jointVars,
      singleVars>>

\* the variables of the functions that are not under study keep these values
TileIdle ==
    /\ n_tiles = 0
    /\ nTx = 0
    /\ nTy = 0
    /\ labels = <<>>
    /\ binCount = <<>>
    /\ tile_id = <<>>
    /\ tiles = <<>>
    /\ counts = <<>>

TrendIdle ==
    /\ values = <<>>
    /\ order = 0
    /\ loc_xy = <<>>
    /\ polynomial = <<>>
    /\ params = <<>>

TspIdle ==
    /\ visit_order = <<>>
    /\ mask = {}
    /\ current = 0

SurveyIdle ==
    /\ start_loc = <<0, 0>>
    /\ nodes = <<>>
    /\ inds = <<>>
    /\ lines = <<>>
    /\ line_id = 0
    /\ distances = <<>>
    /\ loc = <<0, 0>>
    /\ n_neighbors = 0
    /\ line_ids = <<>>

IgnoreIdle ==
    /\ ignore_values = [kind |-> "none"]
    /\ forward_only = FALSE
    /\ components = <<>>
    /\ data_dict = <<>>
    /\ data_in = <<>>
    /\ ignore_value = [kind |-> "none"]
    /\ ignore_type = "None"

PreIdle ==
    /\ param_dict = <<>>
    /\ detrend_type = "None"
    /\ detrend_order = "None"
    /\ update_dict = <<>>

MeshIdle ==
    /\ base_mesh = <<>>
    /\ padding_cells = 0
    /\ minimum_level = 0
    /\ finalize = FALSE
    /\ nested_mesh = <<>>
    /\ pad_distance = 0
    /\ returned = "nothing"

SliceIdle ==
    /\ obj = <<>>
    /\ slicer = [kind |-> "none"]
    /\ sliced_object = <<>>
    /\ g2l = <<>>

OctreeIdle ==
    /\ free_parameter_dict = <<>>
    /\ level = 0
    /\ u_cell_size = 0
    /\ treemesh = <<>>
    /\ octree = "nothing"

JointIdle ==
    /\ params_mesh = "None"
    /\ inversion_mesh = <<>>
    /\ drivers = <<>>
    /\ drivers_in = <<>>
    /\ cell_size = <<>>

SingleIdle ==
    /\ groups = <<>>
    /\ sub_drivers = <<>>
    /\ physical_property = "None"
    /\ local_actives = <<>>

notTile == <<trendVars, tspVars, surveyVars, ignoreVars, preVars, meshVars, sliceVars, octreeVars, jointVars, singleVars>>

TileOthersIdle ==
    /\ TrendIdle
    /\ TspIdle
    /\ SurveyIdle
    /\ IgnoreIdle
    /\ PreIdle
    /\ MeshIdle
    /\ SliceIdle
    /\ OctreeIdle
    /\ JointIdle
    /\ SingleIdle

notTrend == <<tileVars, tspVars, surveyVars, ignoreVars, preVars, meshVars, sliceVars, octreeVars, jointVars, singleVars>>

TrendOthersIdle ==
    /\ TileIdle
    /\ TspIdle
    /\ SurveyIdle
    /\ IgnoreIdle
    /\ PreIdle
    /\ MeshIdle
    /\ SliceIdle
    /\ OctreeIdle
    /\ JointIdle
    /\ SingleIdle

notTsp == <<tileVars, trendVars, surveyVars, ignoreVars, preVars, meshVars, sliceVars, octreeVars, jointVars, singleVars>>

TspOthersIdle ==
    /\ TileIdle
    /\ TrendIdle
    /\ SurveyIdle
    /\ IgnoreIdle
    /\ PreIdle
    /\ MeshIdle
    /\ SliceIdle
    /\ OctreeIdle
    /\ JointIdle
    /\ SingleIdle

notSurvey == <<tileVars, trendVars, tspVars, ignoreVars, preVars, meshVars, sliceVars, octreeVars, jointVars, singleVars>>

SurveyOthersIdle ==
    /\ TileIdle
    /\ TrendIdle
    /\ TspIdle
    /\ IgnoreIdle
    /\ PreIdle
    /\ MeshIdle
    /\ SliceIdle
    /\ OctreeIdle
    /\ JointIdle
    /\ SingleIdle

notIgnore == <<tileVars, trendVars, tspVars, surveyVars, preVars, meshVars, sliceVars, octreeVars, jointVars, singleVars>>

IgnoreOthersIdle ==
    /\ TileIdle
    /\ TrendIdle
    /\ TspIdle
    /\ SurveyIdle
    /\ PreIdle
    /\ MeshIdle
    /\ SliceIdle
    /\ OctreeIdle
    /\ JointIdle
    /\ SingleIdle

notPre == <<tileVars, trendVars, tspVars, surveyVars, ignoreVars, meshVars, sliceVars, octreeVars, jointVars, singleVars>>

PreOthersIdle ==
    /\ TileIdle
    /\ TrendIdle
    /\ TspIdle
    /\ SurveyIdle
    /\ IgnoreIdle
    /\ MeshIdle
    /\ SliceIdle
    /\ OctreeIdle
    /\ JointIdle
    /\ SingleIdle

notMesh == <<tileVars, trendVars, tspVars, surveyVars, ignoreVars, preVars, sliceVars, octreeVars, jointVars, singleVars>>

MeshOthersIdle ==
    /\ TileIdle
    /\ TrendIdle
    /\ TspIdle
    /\ SurveyIdle
    /\ IgnoreIdle
    /\ PreIdle
    /\ SliceIdle
    /\ OctreeIdle
    /\ JointIdle
    /\ SingleIdle

notSlice == <<tileVars, trendVars, tspVars, surveyVars, ignoreVars, preVars, meshVars, octreeVars, jointVars, singleVars>>

SliceOthersIdle ==
    /\ TileIdle
    /\ TrendIdle
    /\ TspIdle
    /\ SurveyIdle
    /\ IgnoreIdle
    /\ PreIdle
    /\ MeshIdle
    /\ OctreeIdle
    /\ JointIdle
    /\ SingleIdle

notOctree == <<tileVars, trendVars, tspVars, surveyVars, ignoreVars, preVars, meshVars, sliceVars, jointVars, singleVars>>

OctreeOthersIdle ==
    /\ TileIdle
    /\ TrendIdle
    /\ TspIdle
    /\ SurveyIdle
    /\ IgnoreIdle
    /\ PreIdle
    /\ MeshIdle
    /\ SliceIdle
    /\ JointIdle
    /\ SingleIdle

notJoint == <<tileVars, trendVars, tspVars, surveyVars, ignoreVars, preVars, meshVars, sliceVars, octreeVars, singleVars>>

JointOthersIdle ==
    /\ TileIdle
    /\ TrendIdle
    /\ TspIdle
    /\ SurveyIdle
    /\ IgnoreIdle
    /\ PreIdle
    /\ MeshIdle
    /\ SliceIdle
    /\ OctreeIdle
    /\ SingleIdle

notSingle == <<tileVars, trendVars, tspVars, surveyVars, ignoreVars, preVars, meshVars, sliceVars, octreeVars, jointVars>>

SingleOthersIdle ==
    /\ TileIdle
    /\ TrendIdle
    /\ TspIdle
    /\ SurveyIdle
    /\ IgnoreIdle
    /\ PreIdle
    /\ MeshIdle
    /\ SliceIdle
    /\ OctreeIdle
    /\ JointIdle

(***************************************************************************)
(* Bounds of the model.                                                    *)
(***************************************************************************)
MaxLocs == 3          \* most locations in a point set
MaxTiles == 2         \* largest n_tiles

Coords == {0, 1, 2}   \* integer coordinates of a location
LocationSets == UNION {[1..n -> Coords \X Coords] : n \in 1..MaxLocs}

(***************************************************************************)
(* Generic helpers (numpy primitives).                                     *)
(***************************************************************************)
Range(s) == {s[i] : i \in DOMAIN s}

SetMin(S) == CHOOSE v \in S : \A w \in S : v <= w

SetMax(S) == CHOOSE v \in S : \A w \in S : v >= w

\* k-th smallest (1-based) entry of the sequence s: np.sort(s)[k-1]
Kth(s, k) ==
    CHOOSE v \in Range(s) :
        /\ Cardinality({i \in DOMAIN s : s[i] < v}) < k
        /\ Cardinality({i \in DOMAIN s : s[i] <= v}) >= k

\* the set S as an increasing sequence: np.unique
RECURSIVE SortedSeq(_)
SortedSeq(S) ==
    IF S = {} THEN <<>> ELSE <<SetMin(S)>> \o SortedSeq(S \ {SetMin(S)})

Xs(locs) == [i \in DOMAIN locs |-> locs[i][1]]

Ys(locs) == [i \in DOMAIN locs |-> locs[i][2]]

\* np.percentile(a, 100 * k / nT), linear interpolation, times nT:
\* virtual index (n - 1) * k / nT between sorted entries lo and lo + 1.
PercentileScaled(a, k, nT) ==
    LET n == Len(a)
        lo == ((n - 1) * k) \div nT
        rem == ((n - 1) * k) % nT
    IN IF rem = 0
          THEN nT * Kth(a, lo + 1)
          ELSE nT * Kth(a, lo + 1) + rem * (Kth(a, lo + 2) - Kth(a, lo + 1))

\* np.percentile(a, np.arange(0, 100, 100 / nT)) times nT, as a sequence
Percentiles(a, nT) == [k \in 1..nT |-> PercentileScaled(a, k - 1, nT)]

(***************************************************************************)
(* tile_locations (inversion/utils.py 458-619)                             *)
(***************************************************************************)

\* sklearn KMeans(n_clusters).fit_predict: some assignment of a cluster in
\* 0..n_clusters-1 to every location; coincident locations fall in the same
\* cluster (each label is the nearest centre of the location's coordinates).
KMeansLabels(locs, n_clusters) ==
    {lab \in [DOMAIN locs -> 0..(n_clusters - 1)] :
        \A p, q \in DOMAIN locs : locs[p] = locs[q] => lab[p] = lab[q]}

\* mask = cluster.labels_ == c
ClusterMask(lab, c) == {p \in DOMAIN lab : lab[p] = c}

\* lower edges of the bins along one axis, times nT
TileEdges(a, nT) == Percentiles(a, nT)

\* upper edge of bin i (1-based), times nT: np.r_[edges[1:], a.max()]
UpperEdge(a, nT, i) ==
    IF i < nT THEN TileEdges(a, nT)[i + 1] ELSE nT * SetMax(Range(a))

\* mean(testx[:-1] - testx[1:]) times nT * (nT - 1): the differences
\* telescope to first minus last percentile
MeanDiffNumer(a, nT) == TileEdges(a, nT)[1] - TileEdges(a, nT)[nT]

\* np.mean(dx) > np.mean(dy), cross-multiplied by the positive denominators
\* nTx * (nTx - 1) and nTy * (nTy - 1)
MeanDxGreater(locs, tx, ty) ==
    MeanDiffNumer(Xs(locs), tx) * ty * (ty - 1)
        > MeanDiffNumer(Ys(locs), ty) * tx * (tx - 1)

\* number of tiles of the grid: X1.shape[0] after mkvc
NumGridTiles(tx, ty) == tx * ty

\* mask of grid tile t (0-based, column-major as mkvc flattens the meshgrid:
\* t = j + i * nTy for x-bin i and y-bin j); both box edges are inclusive
GridMask(locs, tx, ty, t) ==
    LET i == (t \div ty) + 1
        j == (t % ty) + 1
    IN {p \in DOMAIN locs :
            /\ tx * locs[p][1] >= TileEdges(Xs(locs), tx)[i]
            /\ tx * locs[p][1] <= UpperEdge(Xs(locs), tx, i)
            /\ ty * locs[p][2] >= TileEdges(Ys(locs), ty)[j]
            /\ ty * locs[p][2] <= UpperEdge(Ys(locs), ty, j)}

\* labels after the loop `labels[mask] = ii` over all tiles in increasing
\* order: zero initially, each tile overwrites, so the last tile holding a
\* location decides its label
GridLabels(locs, tx, ty) ==
    [p \in DOMAIN locs |->
        LET holding == {t \in 0..(NumGridTiles(tx, ty) - 1) :
                            p \in GridMask(locs, tx, ty, t)}
        IN IF holding = {} THEN 0 ELSE SetMax(holding)]

\* binCount[ii] = mask.sum() for every grid tile
GridBinCount(locs, tx, ty) ==
    [t \in 1..NumGridTiles(tx, ty) |->
        Cardinality(GridMask(locs, tx, ty, t - 1))]

\* mutant of TileIndices: `labels <= tid` in place of `labels == tid`
TileIndicesUpTo(lab, tid) == {p \in DOMAIN lab : lab[p] <= tid}

\* np.where(labels == tid)[0]
TileIndices(lab, tid) == {p \in DOMAIN lab : lab[p] = tid}

\* binCount[binCount > 0]
PositiveCounts(bc) == SelectSeq(bc, LAMBDA c : c > 0)

TileInit ==
    /\ pc = "tile_start"
    /\ locations \in LocationSets
    /\ n_tiles \in 1..MaxTiles
    /\ method \in {"kmeans", "other"}
    /\ nTx = 1
    /\ nTy = 1
    /\ ii = 0
    /\ labels = <<>>
    /\ binCount = <<>>
    /\ tile_id = <<>>
    /\ tiles = <<>>
    /\ counts = <<>>
    /\ TileOthersIdle

\* lines 497-533: cluster, then count every cluster and take its extent
TileKMeans ==
    /\ pc = "tile_start"
    /\ method = "kmeans"
    /\ IF Len(locations) < n_tiles
          THEN \* KMeans.fit raises ValueError: n_samples < n_clusters
               /\ pc' = "tile_raised"
               /\ UNCHANGED <<labels, binCount, tile_id>>
          ELSE \E lab \in KMeansLabels(locations, n_tiles) :
                 /\ labels' = lab
                 /\ IF \E c \in 0..(n_tiles - 1) : ClusterMask(lab, c) = {}
                       THEN \* locations[mask, 0].min() of an empty selection
                            /\ pc' = "tile_raised"
                            /\ UNCHANGED <<binCount, tile_id>>
                       ELSE /\ binCount' = [c \in 1..n_tiles |->
                                    Cardinality(ClusterMask(lab, c - 1))]
                            /\ tile_id' = SortedSeq(Range(lab))
                            /\ pc' = "tile_out"
    /\ UNCHANGED <<method, ii, locations, n_tiles, nTx, nTy, tiles, counts>>
    /\ UNCHANGED notTile

\* lines 541-557: one pass of the refinement loop
TileRefine ==
    /\ pc = "tile_start"
    /\ method # "kmeans"
    /\ ii < n_tiles + 1
    /\ IF MeanDxGreater(locations, nTx + 1, nTy + 1)
          THEN nTx' = nTx /\ nTy' = nTy + 1
          ELSE nTx' = nTx + 1 /\ nTy' = nTy
    /\ ii' = ii + 1
    /\ UNCHANGED <<pc, method, locations, n_tiles, labels, binCount, tile_id,
                   tiles, counts>>
    /\ UNCHANGED notTile

\* lines 558-600: build the grid, label and count its tiles
TileGrid ==
    /\ pc = "tile_start"
    /\ method # "kmeans"
    /\ ii = n_tiles + 1
    /\ labels' = GridLabels(locations, nTx, nTy)
    /\ binCount' = GridBinCount(locations, nTx, nTy)
    /\ tile_id' = SortedSeq(Range(GridLabels(locations, nTx, nTy)))
    /\ pc' = "tile_out"
    /\ UNCHANGED <<method, ii, locations, n_tiles, nTx, nTy, tiles, counts>>
    /\ UNCHANGED notTile

\* lines 602-619 with count=True
TileReturn ==
    /\ pc = "tile_out"
    /\ tiles' = [k \in DOMAIN tile_id |-> TileIndices(labels, tile_id[k])]
    /\ counts' = PositiveCounts(binCount)
    /\ pc' = "tile_done"
    /\ UNCHANGED <<method, ii, locations, n_tiles, nTx, nTy, labels, binCount,
                   tile_id>>
    /\ UNCHANGED notTile

TileNext == TileKMeans \/ TileRefine \/ TileGrid \/ TileReturn

SpecTile == TileInit /\ [][TileNext]_vars

\* the returned tiles are non-empty, pairwise disjoint and cover every
\* location index (1..n here, 0..n-1 in numpy)
TilesPartition ==
    /\ \A k \in DOMAIN tiles : tiles[k] # {}
    /\ \A k, l \in DOMAIN tiles : k # l => tiles[k] \cap tiles[l] = {}
    /\ UNION Range(tiles) = DOMAIN locations

\* C1 as stated: for every non-empty location set, every n_tiles >= 1 and
\* both methods, tile_locations returns tiles that are non-empty, pairwise
\* disjoint and cover all location indices.
C1_Original ==
    /\ pc # "tile_raised"
    /\ pc = "tile_done" => TilesPartition

\* C1 amended: whenever tile_locations returns, its tiles are non-empty,
\* pairwise disjoint and cover all location indices; the percentile-grid
\* method always returns, and 'kmeans' raises exactly when some of the
\* n_tiles clusters holds no location (always so when n_tiles exceeds the
\* number of distinct locations).
C1_TilesPartition ==
    /\ pc = "tile_done" => TilesPartition
    /\ pc = "tile_raised" =>
          /\ method = "kmeans"
          /\ \/ Len(locations) < n_tiles
             \/ \E c \in 0..(n_tiles - 1) : ClusterMask(labels, c) = {}
    /\ (pc = "tile_done" /\ method = "kmeans") =>
          Len(tiles) = n_tiles /\ n_tiles <= Cardinality(Range(locations))

\* C1 witness: the grid method returned several tiles, a location lying in
\* more than one tile box
C1_Witness ==
    /\ pc = "tile_done"
    /\ method = "other"
    /\ Len(tiles) > 1
    /\ \E p \in DOMAIN locations :
          Cardinality({t \in 0..(NumGridTiles(nTx, nTy) - 1) :
                          p \in GridMask(locations, nTx, nTy, t)}) > 1

\* C2: with count=True the count array has one entry per returned tile and
\* its i-th entry is the number of location indices in the i-th tile.
C2_CountPerTile ==
    pc = "tile_done" =>
        /\ Len(counts) = Len(tiles)
        /\ \A k \in DOMAIN tiles : counts[k] = Cardinality(tiles[k])

(***************************************************************************)
(* calculate_2D_trend (inversion/utils.py 24-110)                          *)
(*                                                                         *)
(* A value is NaN or a number; the fitted numbers themselves (centre of    *)
(* mass, least-squares solution) are not computed, a coefficient is named  *)
(* by the exponents of its monomial.                                       *)
(***************************************************************************)
NaN == [kind |-> "nan"]

Num(v) == [kind |-> "num", v |-> v]

MaxPoints == 4        \* most points handed to calculate_2D_trend
MaxOrder == 1         \* largest polynomial order

\* row order of the input points: rows are listed in lexicographic order
RowLeq(a, b) == a[1] < b[1] \/ (a[1] = b[1] /\ a[2] <= b[2])

PointSets ==
    UNION {{pts \in [1..n -> {0, 1, 2} \X {0, 1}] :
                \A k \in 1..(n - 1) : RowLeq(pts[k], pts[k + 1])} :
           n \in 0..MaxPoints}

\* (b - a) x (c - a)
Cross(a, b, c) ==
    (b[1] - a[1]) * (c[2] - a[2]) - (b[2] - a[2]) * (c[1] - a[1])

Between(u, v, w) == (u <= v /\ v <= w) \/ (w <= v /\ v <= u)

OnSegment(q, a, b) ==
    /\ Cross(a, b, q) = 0
    /\ Between(a[1], q[1], b[1])
    /\ Between(a[2], q[2], b[2])

InTriangle(q, a, b, c) ==
    /\ Cross(a, b, c) # 0
    /\ \/ Cross(a, b, q) >= 0 /\ Cross(b, c, q) >= 0 /\ Cross(c, a, q) >= 0
       \/ Cross(a, b, q) <= 0 /\ Cross(b, c, q) <= 0 /\ Cross(c, a, q) <= 0

\* Qhull fails (QhullError) when the input has no three points that span
\* the plane: fewer than three points, coincident or collinear points
HullFails(pts) ==
    \A a, b, c \in Range(pts) : Cross(a, b, c) = 0

\* q is a corner of the convex hull of the point set S
IsHullVertex(q, S) ==
    /\ ~ \E a, b \in S \ {q} : OnSegment(q, a, b)
    /\ ~ \E a, b, c \in S \ {q} : InTriangle(q, a, b, c)

\* hull.vertices: one row index for every corner of the hull
HullVertices(pts) ==
    {k \in DOMAIN pts :
        /\ IsHullVertex(pts[k], Range(pts))
        /\ \A l \in DOMAIN pts : pts[l] = pts[k] => k <= l}

\* the rows of s at the indices in S, in increasing index order
RECURSIVE Take(_, _)
Take(s, S) ==
    IF S = {} THEN <<>>
    ELSE <<s[SetMin(S)]>> \o Take(s, S \ {SetMin(S)})

\* mutant of TriuIndices: np.diag_indices(n), one column per order
DiagIndices(n) == [k \in 1..n |-> <<k - 1, k - 1>>]

\* np.triu_indices(n): the pairs <<x, y>> with 0 <= x <= y < n, row by row
RECURSIVE TriuRows(_, _)
TriuRows(x, n) ==
    IF x >= n THEN <<>>
    ELSE [k \in 1..(n - x) |-> <<x, x + k - 1>>] \o TriuRows(x + 1, n)

TriuIndices(n) == TriuRows(0, n)

\* mutant of TooFewValues: `<` in place of `<=`
FewerValues(shape) == shape[1] < shape[2]

\* polynomial.shape[0] <= polynomial.shape[1]
TooFewValues(shape) == shape[1] <= shape[2]

\* values[~np.isnan(values)] as row indices
NotNaNRows(vals) == {k \in DOMAIN vals : vals[k] # NaN}

TrendInit ==
    /\ pc = "trend_start"
    /\ method \in {"all", "perimeter", "other"}
    /\ ii = 0
    /\ locations \in PointSets
    /\ values \in [DOMAIN locations -> {NaN, Num(1)}]
    /\ order \in -1..MaxOrder
    /\ loc_xy = <<>>
    /\ polynomial = <<>>
    /\ params = <<>>
    /\ TrendOthersIdle

\* lines 60-78: check the order, drop NaN values, pick the rows of the fit
TrendSelect ==
    /\ pc = "trend_start"
    /\ LET kept == Take(locations, NotNaNRows(values))
       IN IF order < 0
             THEN pc' = "trend_value_error" /\ UNCHANGED loc_xy
          ELSE IF method = "perimeter"
             THEN IF kept = <<>>
                     THEN \* ConvexHull of no points: ValueError("No points
                          \* given") before Qhull runs
                          pc' = "trend_value_error" /\ UNCHANGED loc_xy
                  ELSE IF HullFails(kept)
                     THEN pc' = "trend_qhull_error" /\ UNCHANGED loc_xy
                     ELSE /\ loc_xy' = Take(kept, HullVertices(kept))
                          /\ pc' = "trend_selected"
          ELSE IF method # "all"
             THEN pc' = "trend_value_error" /\ UNCHANGED loc_xy
          ELSE loc_xy' = kept /\ pc' = "trend_selected"
    /\ UNCHANGED <<method, ii, locations, values, order, polynomial, params>>
    /\ UNCHANGED notTrend

\* lines 80-97: one column per pair of np.triu_indices(order + 1), one row
\* per selected point; refuse a system with too few rows
TrendPolynomial ==
    /\ pc = "trend_selected"
    /\ LET shape == <<Len(loc_xy), Len(TriuIndices(order + 1))>>
       IN /\ polynomial' = shape
          /\ pc' = IF TooFewValues(shape)
                      THEN "trend_value_error" ELSE "trend_fit"
    /\ UNCHANGED <<method, ii, locations, values, order, loc_xy, params>>
    /\ UNCHANGED notTrend

\* lines 99-110: np.linalg.lstsq returns one coefficient per column, named
\* here by the exponents <<x, y - x>> of its monomial
TrendFit ==
    /\ pc = "trend_fit"
    /\ params' = [k \in 1..polynomial[2] |->
                    <<TriuIndices(order + 1)[k][1],
                      TriuIndices(order + 1)[k][2]
                          - TriuIndices(order + 1)[k][1]>>]
    /\ pc' = "trend_done"
    /\ UNCHANGED <<method, ii, locations, values, order, loc_xy, polynomial>>
    /\ UNCHANGED notTrend

TrendNext == TrendSelect \/ TrendPolynomial \/ TrendFit

SpecTrend == TrendInit /\ [][TrendNext]_vars

ValuesForFit ==
    IF method = "perimeter"
       THEN Cardinality(HullVertices(Take(locations, NotNaNRows(values))))
       ELSE Cardinality(NotNaNRows(values))

NumCoefficients == ((order + 1) * (order + 2)) \div 2

AcceptedCall == order >= 0 /\ method \in {"all", "perimeter"}

TrendEnded ==
    pc \in {"trend_value_error", "trend_qhull_error", "trend_done"}

\* C8 as stated: ValueError whenever the values used for the fit do not
\* exceed the number of coefficients, the fit in every other case.
C8_Original ==
    (AcceptedCall /\ TrendEnded) =>
        IF ValuesForFit <= NumCoefficients
           THEN pc = "trend_value_error"
           ELSE pc = "trend_done"

\* C8 amended: with method 'perimeter' and at least one non-NaN value,
\* ConvexHull raises QhullError when the non-NaN points do not span the
\* plane (fewer than three points, or all collinear), whatever the order;
\* in every other accepted call the function raises ValueError whenever the
\* values used for the fit do not exceed the number of coefficients and
\* performs the fit otherwise.
C8_TooFewValues ==
    (AcceptedCall /\ TrendEnded) =>
        IF method = "perimeter"
              /\ NotNaNRows(values) # {}
              /\ HullFails(Take(locations, NotNaNRows(values)))
           THEN pc = "trend_qhull_error"
        ELSE IF ValuesForFit <= NumCoefficients
           THEN pc = "trend_value_error"
           ELSE pc = "trend_done" /\ polynomial[1] = ValuesForFit

\* C8 witness: a first-order perimeter fit refused because the hull has
\* exactly as many corners as the polynomial has coefficients
C8_Witness ==
    /\ pc = "trend_value_error"
    /\ method = "perimeter"
    /\ order = 1
    /\ polynomial = <<3, 3>>
    /\ Len(locations) > 3

(***************************************************************************)
(* traveling_salesman (utils/surveys.py 121-143)                           *)
(***************************************************************************)
RECURSIVE SumSeq(_)
SumSeq(s) == IF s = <<>> THEN 0 ELSE Head(s) + SumSeq(Tail(s))

\* squared euclidean distance in the xy plane
Dist2(a, b) ==
    (a[1] - b[1]) * (a[1] - b[1]) + (a[2] - b[2]) * (a[2] - b[2])

\* np.linalg.norm(locs[k] - mean) squared, times n * n: the mean is the sum
\* of the rows over n
MeanDist2(locs, k) ==
    Dist2(<<Len(locs) * locs[k][1], Len(locs) * locs[k][2]>>,
          <<SumSeq(Xs(locs)), SumSeq(Ys(locs))>>)

\* np.argmax over the rows of S: the first row with the largest key
ArgMaxMean(locs, S) ==
    CHOOSE k \in S :
        \A l \in S : \/ MeanDist2(locs, l) < MeanDist2(locs, k)
                     \/ (MeanDist2(locs, l) = MeanDist2(locs, k) /\ k <= l)

\* np.argmin of the distance to row c over the rows of S: the first nearest
ArgMinFrom(locs, c, S) ==
    CHOOSE k \in S :
        \A l \in S : \/ Dist2(locs[c], locs[l]) > Dist2(locs[c], locs[k])
                     \/ (Dist2(locs[c], locs[l]) = Dist2(locs[c], locs[k])
                            /\ k <= l)

\* mutant of Remaining: the mask is ignored
AllRows(locs, m) == DOMAIN locs

\* remaining = np.where(mask)[0]
Remaining(locs, m) == {k \in DOMAIN locs : k \in m}

TspInit ==
    /\ pc = "tsp_start"
    /\ method = "none"
    /\ ii = 0
    /\ locations \in LocationSets \cup {<<>>}
    /\ visit_order = <<>>
    /\ mask = {}
    /\ current = 0
    /\ TspOthersIdle

\* lines 130-134: start from the row furthest from the mean
TspStart ==
    /\ pc = "tsp_start"
    /\ IF locations = <<>>
          THEN \* np.argmax of an empty sequence raises ValueError
               /\ pc' = "tsp_value_error"
               /\ UNCHANGED <<current, visit_order, mask>>
          ELSE /\ current' = ArgMaxMean(locations, DOMAIN locations)
               /\ visit_order' = <<current'>>
               /\ mask' = DOMAIN locations \ {current'}
               /\ pc' = "tsp_loop"
    /\ UNCHANGED <<method, ii, locations>>
    /\ UNCHANGED notTsp

\* lines 136-141: one pass of the loop
TspStep ==
    /\ pc = "tsp_loop"
    /\ ii < Len(locations) - 1
    /\ current' = ArgMinFrom(locations, current, Remaining(locations, mask))
    /\ visit_order' = Append(visit_order, current')
    /\ mask' = mask \ {current'}
    /\ ii' = ii + 1
    /\ UNCHANGED <<pc, method, locations>>
    /\ UNCHANGED notTsp

\* line 143
TspReturn ==
    /\ pc = "tsp_loop"
    /\ ii = Len(locations) - 1
    /\ pc' = "tsp_done"
    /\ UNCHANGED <<method, ii, locations, tspVars>>
    /\ UNCHANGED notTsp

TspNext == TspStart \/ TspStep \/ TspReturn

SpecTsp == TspInit /\ [][TspNext]_vars

\* C9: traveling_salesman returns a permutation of the row indices that
\* starts at a row furthest from the mean location and in which every later
\* row is nearest, in the xy plane, to the row before it among the rows not
\* yet visited.
C9_NearestNeighbourOrder ==
    /\ pc = "tsp_done" =>
        /\ Len(visit_order) = Len(locations)
        /\ Range(visit_order) = DOMAIN locations
        /\ \A l \in DOMAIN locations :
              MeanDist2(locations, l) <= MeanDist2(locations, visit_order[1])
        /\ \A k \in 2..Len(visit_order) :
              \A l \in DOMAIN locations \ {visit_order[j] : j \in 1..(k - 1)} :
                  Dist2(locations[visit_order[k - 1]], locations[visit_order[k]])
                      <= Dist2(locations[visit_order[k - 1]], locations[l])
    /\ pc = "tsp_value_error" => locations = <<>>

\* C9 witness: three rows were ordered and the nearest unvisited row of the
\* start was not the row next to it in the input
C9_Witness ==
    /\ pc = "tsp_done"
    /\ Len(locations) >= 3
    /\ visit_order[2] # visit_order[1] + 1
    /\ visit_order[1] # 1

(***************************************************************************)
(* survey_lines, next_neighbor, new_neighbors (utils/surveys.py 67-99,     *)
(* 166-240)                                                                *)
(*                                                                         *)
(* Distances are kept squared; on integer coordinates two distances are    *)
(* np.allclose exactly when they are equal.                                *)
(***************************************************************************)
MaxSurvey == 4        \* most locations of a survey

SurveyCoords == {<<0, 0>>, <<1, 0>>, <<3, 0>>, <<0, 1>>}

SurveySets == UNION {[1..k -> SurveyCoords] : k \in 1..MaxSurvey}

\* distance reported by the kd-tree for a missing neighbour (np.inf)
Inf == [kind |-> "inf"]

\* the rows of S from nearest to furthest from point, rows at equal
\* distance in any order
RECURSIVE NearestFirst(_, _, _)
NearestFirst(locs, point, S) ==
    IF S = {} THEN {<<>>}
    ELSE UNION {{<<r>> \o rest : rest \in NearestFirst(locs, point, S \ {r})} :
                r \in {q \in S : \A l \in S :
                          Dist2(locs[q], point) <= Dist2(locs[l], point)}}

\* tree.query(point, k): the k nearest rows by increasing distance; when the
\* tree holds fewer than k rows the tail is filled with the index len(locs)
\* (here Len(locs) + 1)
Query(locs, point, k) ==
    {[j \in 1..k |-> IF j <= Len(locs) THEN perm[j] ELSE Len(locs) + 1] :
        perm \in NearestFirst(locs, point, DOMAIN locs)}

\* the distance that comes with neighbour i
QueryDistance(locs, point, i) ==
    IF i \in DOMAIN locs THEN Num(Dist2(locs[i], point)) ELSE Inf

\* neighbors.tolist().index(i): first position holding i
FirstIndex(neighbors, i) ==
    SetMin({j \in DOMAIN neighbors : neighbors[j] = i})

\* new_neighbors: positions (1-based here) of the neighbours that are still
\* in nodes and do not lie at distance zero
NewNeighbors(locs, point, neighbors, traversable) ==
    {j \in DOMAIN neighbors :
        IF QueryDistance(locs, point,
                         neighbors[FirstIndex(neighbors, neighbors[j])])
              # Num(0)
           THEN neighbors[j] \in Range(traversable)
           ELSE FALSE}

\* any(new_ids): a list of positions is true when it holds a position other
\* than 0 (1 with 1-based positions)
AnyPosition(new_ids) == \E j \in new_ids : j - 1 # 0

\* neighbors[new_ids][np.argmin(distances[new_ids])]: the first of the
\* nearest kept neighbours
NextId(locs, point, neighbors, new_ids) ==
    neighbors[CHOOSE j \in new_ids :
        \A l \in new_ids :
            \/ Dist2(locs[neighbors[l]], point) > Dist2(locs[neighbors[j]], point)
            \/ (Dist2(locs[neighbors[l]], point) = Dist2(locs[neighbors[j]], point)
                  /\ j <= l)]

\* np.allclose(dist, distances, atol=1e-6)
AllClose(dist, ds) == \A k \in DOMAIN ds : ds[k] = dist

\* is_outlier(distances, dist) of geoapps/utils/statistics.py: either answer
IsOutlier(ds, dist) == BOOLEAN

\* s without its first entry equal to v: nodes.pop(nodes.index(v))
RemoveFirst(s, v) ==
    LET at == SetMin({j \in DOMAIN s : s[j] = v})
    IN [j \in 1..(Len(s) - 1) |-> IF j < at THEN s[j] ELSE s[j + 1]]

\* np.argmin(np.linalg.norm(locs - start_loc, axis=1))
StartId(locs, start) ==
    CHOOSE k \in DOMAIN locs :
        \A l \in DOMAIN locs :
            \/ Dist2(locs[l], start) > Dist2(locs[k], start)
            \/ (Dist2(locs[l], start) = Dist2(locs[k], start) /\ k <= l)

SurveyInit ==
    /\ pc = "survey_start"
    /\ method = "none"
    /\ ii = 0
    /\ locations \in SurveySets
    /\ start_loc \in {<<0, 0>>, <<3, 1>>}
    /\ nodes = <<>>
    /\ inds = <<>>
    /\ lines = <<>>
    /\ line_id = 0
    /\ distances = <<>>
    /\ loc = <<0, 0>>
    /\ n_neighbors = 0
    /\ line_ids = <<>>
    /\ SurveyOthersIdle

\* mutant of SurveyStart: the first line id is the reserved 0
SurveyStartAtZero ==
    /\ pc = "survey_start"
    /\ LET start_id == StartId(locations, start_loc)
       IN /\ nodes' = SortedSeq(DOMAIN locations \ {start_id})
          /\ inds' = <<start_id>>
          /\ loc' = locations[start_id]
    /\ line_id' = 0
    /\ lines' = <<>>
    /\ distances' = <<>>
    /\ pc' = "survey_loop"
    /\ UNCHANGED <<method, ii, locations, start_loc, n_neighbors, line_ids>>
    /\ UNCHANGED notSurvey

\* lines 176-201
SurveyStart ==
    /\ pc = "survey_start"
    /\ LET start_id == StartId(locations, start_loc)
       IN /\ nodes' = SortedSeq(DOMAIN locations \ {start_id})
          /\ inds' = <<start_id>>
          /\ loc' = locations[start_id]
    /\ line_id' = 1
    /\ lines' = <<>>
    /\ distances' = <<>>
    /\ pc' = "survey_loop"
    /\ UNCHANGED <<method, ii, locations, start_loc, n_neighbors, line_ids>>
    /\ UNCHANGED notSurvey

\* lines 202-204: enter the loop body and call next_neighbor(tree, loc, nodes)
SurveyEnter ==
    /\ pc = "survey_loop"
    /\ nodes # <<>>
    /\ lines' = Append(lines, line_id)
    /\ n_neighbors' = 3
    /\ pc' = "survey_next_neighbor"
    /\ UNCHANGED <<method, ii, locations, start_loc, nodes, inds, line_id,
                   distances, loc, line_ids>>
    /\ UNCHANGED notSurvey

\* lines 90-96 and 206-221: next_neighbor finds a neighbour; the loop body
\* decides on a new line and moves on to the neighbour
SurveyFound ==
    /\ pc = "survey_next_neighbor"
    /\ \E neighbors \in Query(locations, loc, n_neighbors) :
         LET new_ids == NewNeighbors(locations, loc, neighbors, nodes)
             next_id == NextId(locations, loc, neighbors, new_ids)
             dist == Dist2(locations[next_id], loc)
         IN /\ AnyPosition(new_ids)
            /\ \E outlier \in
                    IF Len(distances) > 1 /\ ~ AllClose(dist, distances)
                       THEN IsOutlier(distances, dist) ELSE {FALSE} :
                 IF outlier
                    THEN line_id' = line_id + 1 /\ distances' = <<>>
                    ELSE line_id' = line_id /\ distances' = Append(distances, dist)
            /\ nodes' = RemoveFirst(nodes, next_id)
            /\ inds' = Append(inds, next_id)
            /\ loc' = locations[next_id]
    /\ pc' = "survey_loop"
    /\ UNCHANGED <<method, ii, locations, start_loc, lines, n_neighbors, line_ids>>
    /\ UNCHANGED notSurvey

\* lines 98-99: no neighbour among the n_neighbors nearest, ask for three more
SurveyRecurse ==
    /\ pc = "survey_next_neighbor"
    /\ n_neighbors < Len(locations)
    /\ \E neighbors \in Query(locations, loc, n_neighbors) :
         ~ AnyPosition(NewNeighbors(locations, loc, neighbors, nodes))
    /\ n_neighbors' = n_neighbors + 3
    /\ UNCHANGED <<pc, method, ii, locations, start_loc, nodes, inds, lines,
                   line_id, distances, loc, line_ids>>
    /\ UNCHANGED notSurvey

\* lines 98-99 once the query already returns every row of the tree: every
\* deeper call sees the same rows, the recursion only ends at the
\* interpreter's recursion limit (RecursionError)
SurveyRecursionError ==
    /\ pc = "survey_next_neighbor"
    /\ n_neighbors >= Len(locations)
    /\ \E neighbors \in Query(locations, loc, n_neighbors) :
         ~ AnyPosition(NewNeighbors(locations, loc, neighbors, nodes))
    /\ pc' = "survey_recursion_error"
    /\ UNCHANGED <<method, ii, locations, start_loc, nodes, inds, lines,
                   line_id, distances, loc, n_neighbors, line_ids>>
    /\ UNCHANGED notSurvey

\* lines 223-240: np.array(lines)[np.argsort(inds)]
SurveyReturn ==
    /\ pc = "survey_loop"
    /\ nodes = <<>>
    /\ lines' = Append(lines, line_id)
    /\ line_ids' = [row \in 1..Len(inds) |->
                      lines'[FirstIndex(inds, SortedSeq(Range(inds))[row])]]
    /\ pc' = "survey_done"
    /\ UNCHANGED <<method, ii, locations, start_loc, nodes, inds, line_id,
                   distances, loc, n_neighbors>>
    /\ UNCHANGED notSurvey

SurveyNext ==
    \/ SurveyStart
    \/ SurveyEnter
    \/ SurveyFound
    \/ SurveyRecurse
    \/ SurveyRecursionError
    \/ SurveyReturn

SpecSurvey == SurveyInit /\ [][SurveyNext]_vars

\* C10: survey_lines terminates for every finite set of survey locations,
\* coincident locations included, and returns exactly one line id per
\* location.
C10_ReturnsLineIds ==
    /\ pc # "survey_recursion_error"
    /\ pc = "survey_done" => Len(line_ids) = Len(locations)

\* C11: the line ids assigned along the traversal order (lines[k] is the id
\* of the k-th traversed location inds[k]) start at 1 for the location
\* closest to start_loc, never decrease and grow by at most 1 from one
\* traversed location to the next; the id 0 is never assigned, and the
\* returned array holds these ids at the rows of the traversed locations.
C11_LineIdsAlongTraversal ==
    /\ inds # <<>> =>
          \A l \in DOMAIN locations :
              Dist2(locations[inds[1]], start_loc)
                  <= Dist2(locations[l], start_loc)
    /\ lines # <<>> => lines[1] = 1
    /\ Len(lines) <= Len(inds)
    /\ \A k \in DOMAIN lines : lines[k] # 0
    /\ \A k \in 1..(Len(lines) - 1) :
          lines[k + 1] = lines[k] \/ lines[k + 1] = lines[k] + 1
    /\ pc = "survey_done" =>
          /\ Len(lines) = Len(inds)
          /\ \A k \in DOMAIN inds : line_ids[inds[k]] = lines[k]

\* a survey of four locations traversed to its end, the last one on line 2
C11_Witness ==
    /\ pc = "survey_done"
    /\ Len(lines) = 4
    /\ lines[1] = 1
    /\ lines[4] = 2

(***************************************************************************)
(* set_infinity_uncertainties, parse_ignore_values (inversion/utils.py     *)
(* 315-369)                                                                *)
(*                                                                         *)
(* A dictionary is a function of its keys; the key comp + "_channel" is    *)
(* the pair <<comp, "channel">>.  A string is the sequence of its          *)
(* characters.                                                             *)
(***************************************************************************)
None == [kind |-> "none"]

Str(chars) == [kind |-> "str", chars |-> chars]

MaxIgnoreLen == 2     \* longest ignore_values string

IgnoreChars == {"<", ">", "1", "a"}

IgnoreInputs ==
    {None} \cup
    {Str(c) : c \in UNION {[1..k -> IgnoreChars] : k \in 1..MaxIgnoreLen}}

\* channel values and uncertainties of a data object with two vertices
DataArrays ==
    {<<NaN, Num(1)>>, <<Num(0), Num(2)>>, <<Num(1), Num(2)>>, <<Num(2), NaN>>}

UncertaintyArrays ==
    {<<Num(1), Inf>>, <<Num(2), Num(1)>>, <<Inf, Num(1)>>}

ChannelKey(comp) == <<comp, "channel">>

UncertaintyKey(comp) == <<comp, "uncertainty">>

\* the data dictionaries over a list of components: a channel entry for
\* each, an uncertainty entry for those in withUnc
DataDicts(comps) ==
    UNION {
        {dd \in [{ChannelKey(c) : c \in Range(comps)}
                    \cup {UncertaintyKey(c) : c \in withUnc} ->
                 [name : {"channel", "uncertainty"},
                  values : DataArrays \cup UncertaintyArrays]] :
            /\ \A c \in Range(comps) :
                  /\ dd[ChannelKey(c)].name = "channel"
                  /\ dd[ChannelKey(c)].values \in DataArrays
            /\ \A c \in withUnc :
                  /\ dd[UncertaintyKey(c)].name = "uncertainty"
                  /\ dd[UncertaintyKey(c)].values \in UncertaintyArrays} :
        withUnc \in SUBSET Range(comps)}

\* float(text) for a text over IgnoreChars: a non-empty run of digits is its
\* decimal value, anything else raises ValueError (here None)
RECURSIVE Decimal(_)
Decimal(chars) ==
    IF chars = <<>> THEN 0
    ELSE 10 * Decimal(SubSeq(chars, 1, Len(chars) - 1))
            + (IF chars[Len(chars)] = "1" THEN 1 ELSE 0)

IsFloatText(chars) ==
    chars # <<>> /\ \A k \in DOMAIN chars : chars[k] \in {"1"}

\* [k for k in ignore_values if k in ["<", ">"]]
TypeChars(chars) == SelectSeq(chars, LAMBDA c : c \in {"<", ">"})

\* text.split(sep)[1]: what stands between the first and the second sep
SplitSecond(chars, sep) ==
    LET first == SetMin({k \in DOMAIN chars : chars[k] = sep})
        later == {k \in DOMAIN chars : k > first /\ chars[k] = sep}
        last == IF later = {} THEN Len(chars) ELSE SetMin(later) - 1
    IN SubSeq(chars, first + 1, last)

\* parse_ignore_values: [raised, value, type]
ParseIgnoreValues(text, forward) ==
    IF forward \/ text = None
       THEN [raised |-> FALSE, value |-> None, type |-> "None"]
    ELSE LET found == TypeChars(text.chars)
             type == IF found = <<>> THEN "=" ELSE found[1]
         IN IF type \in {"<", ">"}
               THEN IF IsFloatText(SplitSecond(text.chars, type))
                       THEN [raised |-> FALSE,
                             value |-> Num(Decimal(SplitSecond(text.chars, type))),
                             type |-> type]
                       ELSE [raised |-> TRUE, value |-> None, type |-> "None"]
               ELSE IF IsFloatText(text.chars)
                       THEN [raised |-> FALSE,
                             value |-> Num(Decimal(text.chars)), type |-> "="]
                       ELSE [raised |-> FALSE, value |-> None, type |-> "None"]

\* mutant of IgnoreMask: strict comparisons
IgnoreMaskStrict(d, value, type) ==
    /\ d # NaN
    /\ \/ type = "<" /\ d.v < value.v
       \/ type = ">" /\ d.v > value.v
       \/ type = "=" /\ d.v = value.v

\* data <= ignore_value, data >= ignore_value or data == ignore_value at one
\* entry; a comparison with NaN is false
IgnoreMask(d, value, type) ==
    /\ d # NaN
    /\ \/ type = "<" /\ d.v <= value.v
       \/ type = ">" /\ d.v >= value.v
       \/ type = "=" /\ d.v = value.v

\* data_dict[comp + "_uncertainty"]["values"] can be read: the entry is a
\* dictionary holding "values" (an ndarray indexed by a string raises
\* IndexError)
HasValues(dd, key) ==
    key \in DOMAIN dd /\ "values" \in DOMAIN dd[key]

\* lines 327-345 for one component whose uncertainty can be read
SetInfinityComponent(dd, comp, value, type) ==
    IF UncertaintyKey(comp) \notin DOMAIN dd THEN dd
    ELSE LET data == dd[ChannelKey(comp)].values
             nanned == [k \in DOMAIN data |->
                          IF data[k] = NaN
                             THEN Inf ELSE dd[UncertaintyKey(comp)].values[k]]
             ignored == [k \in DOMAIN data |->
                          IF value # None /\ IgnoreMask(data[k], value, type)
                             THEN Inf ELSE nanned[k]]
         IN [dd EXCEPT ![UncertaintyKey(comp)].values = ignored]

IgnoreInit ==
    /\ pc = "ignore_start"
    /\ method = "none"
    /\ ii = 0
    /\ locations = <<>>
    /\ ignore_values \in IgnoreInputs
    /\ forward_only \in BOOLEAN
    /\ components \in {<<"gz">>, <<"gxx", "gz">>}
    /\ data_dict \in DataDicts(components)
    /\ data_in = data_dict
    /\ ignore_value = None
    /\ ignore_type = "None"
    /\ IgnoreOthersIdle

\* line 324
IgnoreParse ==
    /\ pc = "ignore_start"
    /\ LET parsed == ParseIgnoreValues(ignore_values, forward_only)
       IN IF parsed.raised
             THEN /\ pc' = "ignore_value_error"
                  /\ UNCHANGED <<ignore_value, ignore_type>>
             ELSE /\ ignore_value' = parsed.value
                  /\ ignore_type' = parsed.type
                  /\ pc' = "ignore_loop"
    /\ UNCHANGED <<method, ii, locations, ignore_values, forward_only,
                   components, data_dict, data_in>>
    /\ UNCHANGED notIgnore

\* lines 326-345: one pass of the loop over the components
IgnoreComponent ==
    /\ pc = "ignore_loop"
    /\ ii < Len(components)
    /\ LET comp == components[ii + 1]
       IN IF UncertaintyKey(comp) \in DOMAIN data_dict
                /\ ~ HasValues(data_dict, UncertaintyKey(comp))
             THEN pc' = "ignore_index_error" /\ UNCHANGED <<ii, data_dict>>
             ELSE /\ data_dict' = SetInfinityComponent(data_dict, comp,
                                        ignore_value, ignore_type)
                  /\ ii' = ii + 1
                  /\ pc' = pc
    /\ UNCHANGED <<method, locations, ignore_values, forward_only, components,
                   data_in, ignore_value, ignore_type>>
    /\ UNCHANGED notIgnore

\* line 347
IgnoreReturn ==
    /\ pc = "ignore_loop"
    /\ ii = Len(components)
    /\ pc' = "ignore_done"
    /\ UNCHANGED <<method, ii, locations, ignoreVars>>
    /\ UNCHANGED notIgnore

IgnoreNext == IgnoreParse \/ IgnoreComponent \/ IgnoreReturn

SpecIgnore == IgnoreInit /\ [][IgnoreNext]_vars

\* the data value d meets the ignore condition of the parsed value and type
MeetsIgnoreCondition(d) ==
    /\ ignore_value # None
    /\ d # NaN
    /\ \/ ignore_type = "<" /\ d.v <= ignore_value.v
       \/ ignore_type = ">" /\ d.v >= ignore_value.v
       \/ ignore_type = "=" /\ d.v = ignore_value.v

\* C4: after set_infinity_uncertainties, for every component with an
\* uncertainty entry, uncertainty[i] is infinite exactly when it was
\* infinite before, or data[i] is NaN, or an ignore value was parsed and
\* data[i] meets the ignore condition; every other uncertainty entry and
\* every component without an uncertainty entry are left unchanged.
C4_InfiniteUncertainties ==
    pc = "ignore_done" =>
        /\ DOMAIN data_dict = DOMAIN data_in
        /\ \A c \in Range(components) :
              /\ data_dict[ChannelKey(c)] = data_in[ChannelKey(c)]
              /\ UncertaintyKey(c) \in DOMAIN data_in =>
                    \A k \in DOMAIN data_in[UncertaintyKey(c)].values :
                        LET before == data_in[UncertaintyKey(c)].values[k]
                            after == data_dict[UncertaintyKey(c)].values[k]
                            d == data_in[ChannelKey(c)].values[k]
                        IN /\ after = Inf <=>
                                \/ before = Inf
                                \/ d = NaN
                                \/ MeetsIgnoreCondition(d)
                           /\ after # Inf => after = before

\* C4 witness: an uncertainty became infinite because the datum equals the
\* value of a '<' ignore string, next to one that was kept
C4_Witness ==
    /\ pc = "ignore_done"
    /\ ignore_type = "<"
    /\ \E c \in Range(components) :
          /\ UncertaintyKey(c) \in DOMAIN data_in
          /\ \E k, l \in DOMAIN data_in[UncertaintyKey(c)].values :
                /\ data_in[ChannelKey(c)].values[k] = ignore_value
                /\ data_in[UncertaintyKey(c)].values[k] # Inf
                /\ data_dict[UncertaintyKey(c)].values[k] = Inf
                /\ data_dict[UncertaintyKey(c)].values[l] # Inf

(***************************************************************************)
(* preprocess_data, get_data_dict, window_data, detrend_data               *)
(* (inversion/utils.py 196-312, 372-455)                                   *)
(*                                                                         *)
(* The data object has two vertices; its windowed copy keeps both and      *)
(* holds a copy of every channel under the same name with a new uid.       *)
(***************************************************************************)
CandidateComponents == <<"gxx", "gz">>

\* a Data entity of the data object: its name and uid
Entity(name) == [name |-> name, uid |-> <<"survey", name>>]

ChannelName(comp) == <<comp, "data">>

UncertaintyName(comp) == <<comp, "unc">>

\* param_dict[comp + "_uncertainty"] is a Data entity or a float
UncertaintyParams(comp) == {Entity(UncertaintyName(comp)), Num(1)}

\* param_dict, by component: the entries comp + "_channel_bool",
\* comp + "_channel" and comp + "_uncertainty"
ParamDicts ==
    {pd \in [Range(CandidateComponents) ->
                [channel_bool : BOOLEAN,
                 channel : {Entity(ChannelName(c)) :
                                c \in Range(CandidateComponents)},
                 uncertainty : UNION {UncertaintyParams(c) :
                                c \in Range(CandidateComponents)}]] :
        \A c \in Range(CandidateComponents) :
            /\ pd[c].channel = Entity(ChannelName(c))
            /\ pd[c].uncertainty \in UncertaintyParams(c)}

IsData(x) == "uid" \in DOMAIN x

\* vertices of the windowed data object
WindowedLocations == <<<<0, 0>>, <<1, 0>>>>

\* values of the channels of the windowed data object, by entity name
WindowedValues ==
    {w \in [{ChannelName(c) : c \in Range(CandidateComponents)} \cup
            {UncertaintyName(c) : c \in Range(CandidateComponents)} ->
            {<<NaN, Num(1)>>, <<Num(1), Num(2)>>, <<Num(1), Inf>>}] :
        \A c \in Range(CandidateComponents) :
            /\ w[ChannelName(c)] \in {<<NaN, Num(1)>>, <<Num(1), Num(2)>>}
            /\ w[UncertaintyName(c)] = <<Num(1), Inf>>}

\* new_data_object.uid and new_data_object.get_entity(name)[0].uid
NewObjectUid == <<"survey_processed", "object">>

NewEntityUid(name) == <<"survey_processed", name>>

ObjectKey == <<"data_object", "uid">>

\* get_data_dict: the components whose channel_bool is set, in the order of
\* param_dict
ActiveComponents(pd) ==
    SelectSeq(CandidateComponents, LAMBDA c : pd[c].channel_bool)

\* get_data_dict: a {"name": ...} entry for every active channel, and for
\* its uncertainty when that is a Data entity
GetDataDict(pd) ==
    LET active == Range(ActiveComponents(pd))
        uncs == {c \in active : IsData(pd[c].uncertainty)}
    IN [key \in {ChannelKey(c) : c \in active}
                    \cup {UncertaintyKey(c) : c \in uncs} |->
            [name |-> IF key[2] = "channel"
                         THEN pd[key[1]].channel.name
                         ELSE pd[key[1]].uncertainty.name]]

\* window_data, lines 264-267: the uncertainty entry is replaced by the
\* array of values itself
WindowUncertainty(entry, vals) == [ndarray |-> vals]

\* window_data, lines 260-267
WindowDataDict(dd, comps, windowed) ==
    [key \in DOMAIN dd |->
        IF key[2] = "channel"
           THEN [name |-> dd[key].name, values |-> windowed[dd[key].name]]
           ELSE WindowUncertainty(dd[key], windowed[dd[key].name])]

\* set_infinity_uncertainties as one call: the first component whose
\* uncertainty entry cannot be read raises IndexError
RECURSIVE SetInfinityAll(_, _, _, _)
SetInfinityAll(dd, comps, value, type) ==
    IF comps = <<>> THEN [raised |-> "no", dict |-> dd]
    ELSE IF UncertaintyKey(Head(comps)) \in DOMAIN dd
              /\ ~ HasValues(dd, UncertaintyKey(Head(comps)))
       THEN [raised |-> "IndexError", dict |-> dd]
    ELSE SetInfinityAll(SetInfinityComponent(dd, Head(comps), value, type),
                        Tail(comps), value, type)

\* calculate_2D_trend as one call: how it ends
TrendOutcome(points, vals, ord, meth) ==
    LET kept == Take(points, NotNaNRows(vals))
        cols == Len(TriuIndices(ord + 1))
    IN IF ord < 0 THEN "ValueError"
       ELSE IF meth = "perimeter"
          THEN IF kept = <<>> THEN "ValueError"
               ELSE IF HullFails(kept) THEN "QhullError"
               ELSE IF TooFewValues(<<Cardinality(HullVertices(kept)), cols>>)
                  THEN "ValueError" ELSE "no"
       ELSE IF meth # "all" THEN "ValueError"
       ELSE IF TooFewValues(<<Len(kept), cols>>) THEN "ValueError" ELSE "no"

\* data["values"] -= data_trend: every number changes, NaN stays NaN
Detrended(vals) ==
    [k \in DOMAIN vals |->
        IF vals[k] = NaN THEN NaN ELSE [kind |-> "detrended", of |-> vals[k]]]

\* detrend_data, lines 300-312, as one call
RECURSIVE DetrendAll(_, _, _, _)
DetrendAll(dd, comps, ord, meth) ==
    IF comps = <<>> THEN [raised |-> "no", dict |-> dd]
    ELSE LET key == ChannelKey(Head(comps))
             ends == TrendOutcome(WindowedLocations, dd[key].values, ord, meth)
         IN IF ends # "no" THEN [raised |-> ends, dict |-> dd]
            ELSE DetrendAll([dd EXCEPT ![key].values = Detrended(@)],
                            Tail(comps), ord, meth)

\* lines 445-453: the keys of the update in the order they are written
UpdateKeys(comps, dd) ==
    LET RECURSIVE Keys(_)
        Keys(cs) ==
            IF cs = <<>> THEN <<>>
            ELSE SelectSeq(<<ChannelKey(Head(cs)), UncertaintyKey(Head(cs))>>,
                           LAMBDA key : key \in DOMAIN dd) \o Keys(Tail(cs))
    IN Keys(comps)

PreInit ==
    /\ pc = "pre_start"
    /\ method = "none"
    /\ ii = 0
    /\ locations = WindowedLocations
    /\ param_dict \in ParamDicts
    /\ values \in WindowedValues
    /\ ignore_values \in {None, Str(<<"<", "1">>), Str(<<"a">>)}
    /\ forward_only \in BOOLEAN
    /\ detrend_type \in {"None", "none", "all", "perimeter"}
    /\ detrend_order \in {None, Num(0), Num(1)}
    /\ components = <<>>
    /\ data_dict = <<>>
    /\ data_in = <<>>
    /\ ignore_value = None
    /\ ignore_type = "None"
    /\ update_dict = <<>>
    /\ order = 0
    /\ loc_xy = <<>>
    /\ polynomial = <<>>
    /\ params = <<>>
    /\ TileIdle
    /\ TspIdle
    /\ SurveyIdle
    /\ MeshIdle
    /\ SliceIdle
    /\ OctreeIdle
    /\ JointIdle
    /\ SingleIdle

preFrame ==
    <<method, ii, locations, param_dict, values, ignore_values, forward_only,
      detrend_type, detrend_order, data_in, ignore_value, ignore_type, order,
      loc_xy, polynomial, params, tileVars, tspVars, surveyVars, meshVars,
      sliceVars, octreeVars, jointVars, singleVars>>

\* lines 406-407
PreGetDataDict ==
    /\ pc = "pre_start"
    /\ components' = ActiveComponents(param_dict)
    /\ data_dict' = GetDataDict(param_dict)
    /\ pc' = "pre_window"
    /\ UNCHANGED <<update_dict, preFrame>>

\* lines 410-422
PreWindow ==
    /\ pc = "pre_window"
    /\ data_dict' = WindowDataDict(data_dict, components, values)
    /\ pc' = "pre_ignore"
    /\ UNCHANGED <<components, update_dict, preFrame>>

\* lines 425-431
PreIgnore ==
    /\ pc = "pre_ignore"
    /\ IF ignore_values = None
          THEN pc' = "pre_detrend" /\ UNCHANGED data_dict
          ELSE LET parsed == ParseIgnoreValues(ignore_values, forward_only)
                   done == SetInfinityAll(data_dict, components, parsed.value,
                                          parsed.type)
               IN IF parsed.raised
                     THEN pc' = "pre_ValueError" /\ UNCHANGED data_dict
                  ELSE IF done.raised # "no"
                     THEN pc' = "pre_IndexError" /\ UNCHANGED data_dict
                  ELSE pc' = "pre_detrend" /\ data_dict' = done.dict
    /\ UNCHANGED <<components, update_dict, preFrame>>

\* lines 433-440 and 297-298
PreDetrend ==
    /\ pc = "pre_detrend"
    /\ IF detrend_type \in {"None", "none"} \/ detrend_order = None
          THEN pc' = "pre_update" /\ UNCHANGED data_dict
          ELSE LET done == DetrendAll(data_dict, components, detrend_order.v,
                                      detrend_type)
               IN IF done.raised = "ValueError"
                     THEN pc' = "pre_ValueError" /\ UNCHANGED data_dict
                  ELSE IF done.raised = "QhullError"
                     THEN pc' = "pre_QhullError" /\ UNCHANGED data_dict
                  ELSE pc' = "pre_update" /\ data_dict' = done.dict
    /\ UNCHANGED <<components, update_dict, preFrame>>

\* lines 443-455: data["name"] of an entry that is an array raises
\* IndexError
PreUpdate ==
    /\ pc = "pre_update"
    /\ LET keys == UpdateKeys(components, data_dict)
       IN IF \E k \in DOMAIN keys : "name" \notin DOMAIN data_dict[keys[k]]
             THEN pc' = "pre_IndexError" /\ UNCHANGED update_dict
             ELSE /\ update_dict' =
                        [key \in {ObjectKey} \cup Range(keys) |->
                            IF key = ObjectKey THEN NewObjectUid
                            ELSE NewEntityUid(data_dict[key].name)]
                  /\ pc' = "pre_done"
    /\ UNCHANGED <<components, data_dict, preFrame>>

PreNext == PreGetDataDict \/ PreWindow \/ PreIgnore \/ PreDetrend \/ PreUpdate

SpecPre == PreInit /\ [][PreNext]_vars

PreEnded ==
    pc \in {"pre_done", "pre_IndexError", "pre_ValueError", "pre_QhullError"}

\* C3: preprocess_data completes without error and returns an update
\* dictionary with the uid of the windowed data object and, for every active
\* component, the uid of its channel and, when its uncertainty is a Data
\* entity, the uid of its uncertainty, for every combination of
\* ignore_values and detrend settings.
C3_UpdateDictionary ==
    PreEnded =>
        /\ pc = "pre_done"
        /\ update_dict[ObjectKey] = NewObjectUid
        /\ \A c \in Range(CandidateComponents) :
              param_dict[c].channel_bool =>
                  /\ ChannelKey(c) \in DOMAIN update_dict
                  /\ update_dict[ChannelKey(c)] = NewEntityUid(ChannelName(c))
                  /\ IsData(param_dict[c].uncertainty) =>
                        /\ UncertaintyKey(c) \in DOMAIN update_dict
                        /\ update_dict[UncertaintyKey(c)]
                              = NewEntityUid(UncertaintyName(c))

(***************************************************************************)
(* create_nested_mesh (geoapps/inversion/utils.py, lines 113-193).         *)
(*                                                                         *)
(* The base mesh is an octree of 4 x 4 x 4 finest cells: eight octants of  *)
(* level 1, some of them refined to level 2.  Cell widths are 2 or 4, so   *)
(* that every cell centre is an integer.  A TreeMesh is the sequence of    *)
(* insert_cells requests it received, each a function from cells to the    *)
(* level asked for, and its finalized flag.                                *)
(***************************************************************************)

\* base_mesh.max_level of a mesh of 4 cells along each axis
MaxLevel == 2

MaxPadding == 2

\* base_mesh.h[0][0], base_mesh.h[1][0]
MeshWidths == {2, 4}

Octants == {<<a, b, c>> : a \in {0, 1}, b \in {0, 1}, c \in {0, 1}}

\* octants of the base mesh that are refined to the finest level
Refinements ==
    {{}, {<<0, 0, 0>>}, {<<0, 0, 0>>, <<1, 1, 0>>, <<0, 1, 1>>}, Octants}

\* centre of the k-th cell of level l along an axis of cell width w
CellCentre(w, l, k) == (w * (2 ^ (MaxLevel - l)) * (2 * k + 1)) \div 2

\* base_mesh.gridCC with base_mesh.cell_levels_by_index
GridCC(h, refined) ==
    {[cc |-> <<CellCentre(h[1], 1, o[1]), CellCentre(h[2], 1, o[2]),
               CellCentre(h[3], 1, o[3])>>, level |-> 1] :
        o \in Octants \ refined}
    \cup
    {[cc |-> <<CellCentre(h[1], 2, k[1]), CellCentre(h[2], 2, k[2]),
               CellCentre(h[3], 2, k[3])>>, level |-> 2] :
        k \in {t \in (0..3) \X (0..3) \X (0..3) :
                  <<t[1] \div 2, t[2] \div 2, t[3] \div 2>> \in refined}}

BaseMeshes ==
    {[h |-> <<hx, hy, 2>>, max_level |-> MaxLevel,
      cells |-> GridCC(<<hx, hy, 2>>, refined)] :
        hx \in MeshWidths, hy \in MeshWidths, refined \in Refinements}

MeshLocations == {<<1, 1>>, <<5, 1>>, <<1, 5>>, <<7, 7>>}

\* get_unique_locations: np.unique(locations, axis=0), sorted distinct rows
UniqueLocations ==
    {locs \in UNION {[1..n -> MeshLocations] :
                        n \in 1..Cardinality(MeshLocations)} :
        \A k \in 1..(Len(locs) - 1) :
            RowLeq(locs[k], locs[k + 1]) /\ locs[k] # locs[k + 1]}

Smaller(a, b) == IF a < b THEN a ELSE b

\* lines 141-143: the level of every cell, capped at base_level
BaseRefinement(bm, min_level) ==
    [c \in bm.cells |-> Smaller(c.level, bm.max_level - min_level)]

\* tri2D.find_simplex(cc) != -1: the point lies in a triangle of the
\* triangulation, i.e. in the convex hull of the locations
FindSimplex(locs, q) ==
    \E a, b, c \in Range(locs) : InTriangle(q, a, b, c)

\* lines 153-157: the cells inside the triangulation, at their own level
HullRefinement(bm, locs) ==
    [c \in {d \in bm.cells : FindSimplex(locs, d.cc)} |-> c.level]

\* line 169
BaseCell(bm) == Smaller(bm.h[1], bm.h[2])

\* sum of one coordinate of the cell centres
RECURSIVE SumCC(_, _)
SumCC(S, axis) ==
    IF S = {} THEN 0
    ELSE LET c == CHOOSE d \in S : TRUE
         IN c.cc[axis] + SumCC(S \ {c}, axis)

\* lines 171-175 times nC * h[0][0] * h[1][0], which keeps integers:
\* center = np.mean(gridCC[:, :2]),
\* stretched_cc = (gridCC[:, :2] - center) * (base_cell / h) + center
StretchedCC(bm, c) ==
    LET nC == Cardinality(bm.cells)
        sx == SumCC(bm.cells, 1)
        sy == SumCC(bm.cells, 2)
    IN <<((nC * c.cc[1] - sx) * BaseCell(bm) + sx * bm.h[1]) * bm.h[2],
         ((nC * c.cc[2] - sy) * BaseCell(bm) + sy * bm.h[2]) * bm.h[1]>>

\* the same scale applied to a survey location or to a distance
Scaled(bm, v) == Cardinality(bm.cells) * bm.h[1] * bm.h[2] * v

\* line 176: rad, _ = tree.query(stretched_cc), squared and scaled
Rad2(bm, locs, c) ==
    SetMin({Dist2(StretchedCC(bm, c),
                  <<Scaled(bm, l[1]), Scaled(bm, l[2])>>) :
               l \in Range(locs)})

\* lines 180-183: the cells with rad < pad_distance, capped at max_level - ii
ShellRefinement(bm, locs, pad, k) ==
    [c \in {d \in bm.cells :
               Rad2(bm, locs, d) < Scaled(bm, pad) * Scaled(bm, pad)}
        |-> Smaller(c.level, bm.max_level - k)]

\* TreeMesh.insert_cells(points, levels, finalize)
InsertCells(mesh, request, fin) ==
    [requests |-> Append(mesh.requests, request),
     finalized |-> mesh.finalized \/ fin]

MeshInit ==
    /\ pc = "mesh_start"
    /\ method \in {"convex_hull", "padding_cells", "other"}
    /\ ii = 0
    /\ locations \in UniqueLocations
    /\ base_mesh \in BaseMeshes
    /\ padding_cells \in 1..MaxPadding
    /\ minimum_level \in 0..MaxLevel
    /\ finalize \in BOOLEAN
    /\ nested_mesh = <<>>
    /\ pad_distance = 0
    /\ returned = "nothing"
    /\ MeshOthersIdle

meshArgs ==
    <<method, locations, base_mesh, padding_cells, minimum_level, finalize>>

\* lines 137-148: the empty nested mesh and the capped base refinement
MeshBase ==
    /\ pc = "mesh_start"
    /\ nested_mesh' =
          InsertCells([requests |-> <<>>, finalized |-> FALSE],
                      BaseRefinement(base_mesh, minimum_level), FALSE)
    /\ pc' = "mesh_method"
    /\ UNCHANGED <<ii, pad_distance, returned, meshArgs>>
    /\ UNCHANGED notMesh

\* lines 150-159: the triangulation succeeds; what is returned is the value
\* of nested_mesh.insert_cells(...), and TreeMesh.insert_cells returns None
MeshConvexHull ==
    /\ pc = "mesh_method"
    /\ method = "convex_hull"
    /\ ~ HullFails(locations)
    /\ nested_mesh' =
          InsertCells(nested_mesh, HullRefinement(base_mesh, locations),
                      finalize)
    /\ returned' = "None"
    /\ pc' = "mesh_done"
    /\ UNCHANGED <<ii, pad_distance, meshArgs>>
    /\ UNCHANGED notMesh

\* lines 160-163: Delaunay raises QhullError, the padding method takes over
MeshQhullError ==
    /\ pc = "mesh_method"
    /\ method = "convex_hull"
    /\ HullFails(locations)
    /\ pc' = "mesh_padding"
    /\ UNCHANGED <<ii, nested_mesh, pad_distance, returned, meshArgs>>
    /\ UNCHANGED notMesh

\* lines 164-167
MeshBadMethod ==
    /\ pc = "mesh_method"
    /\ method \notin {"convex_hull", "padding_cells"}
    /\ pc' = "mesh_ValueError"
    /\ UNCHANGED <<ii, nested_mesh, pad_distance, returned, meshArgs>>
    /\ UNCHANGED notMesh

\* lines 169-177: the kd-tree query and pad_distance = 0
MeshQuery ==
    /\ \/ pc = "mesh_method" /\ method = "padding_cells"
       \/ pc = "mesh_padding"
    /\ pad_distance' = 0
    /\ ii' = 0
    /\ pc' = "mesh_loop"
    /\ UNCHANGED <<nested_mesh, returned, meshArgs>>
    /\ UNCHANGED notMesh

\* lines 178-188: one shell
MeshShell ==
    /\ pc = "mesh_loop"
    /\ ii < minimum_level
    /\ pad_distance' = pad_distance + BaseCell(base_mesh) * (2 ^ ii) * padding_cells
    /\ nested_mesh' =
          InsertCells(nested_mesh,
                      ShellRefinement(base_mesh, locations, pad_distance', ii),
                      FALSE)
    /\ ii' = ii + 1
    /\ UNCHANGED <<pc, returned, meshArgs>>
    /\ UNCHANGED notMesh

\* lines 190-193
MeshReturn ==
    /\ pc = "mesh_loop"
    /\ ii = minimum_level
    /\ nested_mesh' = [nested_mesh EXCEPT !.finalized = @ \/ finalize]
    /\ returned' = "nested_mesh"
    /\ pc' = "mesh_done"
    /\ UNCHANGED <<ii, pad_distance, meshArgs>>
    /\ UNCHANGED notMesh

MeshNext ==
    \/ MeshBase
    \/ MeshConvexHull
    \/ MeshQhullError
    \/ MeshBadMethod
    \/ MeshQuery
    \/ MeshShell
    \/ MeshReturn

SpecMesh == MeshInit /\ [][MeshNext]_vars

\* C5: for both methods create_nested_mesh returns the nested TreeMesh it
\* built, finalized if and only if finalize is true.
C5_ReturnsNestedMesh ==
    pc = "mesh_done" =>
        /\ returned = "nested_mesh"
        /\ nested_mesh.finalized = finalize

\* squared horizontal distance of a cell centre to the nearest location
HorizontalDistance2(locs, c) ==
    SetMin({Dist2(c.cc, l) : l \in Range(locs)})

\* base_cell * padding_cells * (2^(k+1) - 1)
ShellRadius(bm, cells, k) == BaseCell(bm) * cells * (2 ^ (k + 1) - 1)

\* C6: with method 'padding_cells' the requests are the level of every
\* base-mesh cell capped at max_level - minimum_level and, for each shell
\* ii below minimum_level, the level capped at max_level - ii of every cell
\* whose horizontal distance to the nearest survey location is below
\* base_cell * padding_cells * (2^(ii+1) - 1); hence the finest level
\* requested for a cell of a given level does not increase with its
\* distance from the survey, and a cell outside all shells keeps at most
\* level max_level - minimum_level.
C6_ShellRequests ==
    (pc = "mesh_done" /\ method = "padding_cells") =>
        LET reqs == nested_mesh.requests
            finest(c) == SetMax({reqs[k][c] :
                                    k \in {j \in DOMAIN reqs :
                                              c \in DOMAIN reqs[j]}})
        IN /\ Len(reqs) = minimum_level + 1
           /\ reqs[1] = [c \in base_mesh.cells |->
                            Smaller(c.level,
                                    base_mesh.max_level - minimum_level)]
           /\ \A k \in 0..(minimum_level - 1) :
                 reqs[k + 2] =
                    [c \in {d \in base_mesh.cells :
                               HorizontalDistance2(locations, d)
                                 < ShellRadius(base_mesh, padding_cells, k)
                                     * ShellRadius(base_mesh, padding_cells, k)}
                        |-> Smaller(c.level, base_mesh.max_level - k)]
           /\ \A c, d \in base_mesh.cells :
                 (/\ c.level = d.level
                  /\ HorizontalDistance2(locations, c)
                        <= HorizontalDistance2(locations, d))
                    => finest(c) >= finest(d)

(***************************************************************************)
(* slice_and_map (utils/surveys.py 243-267)                                *)
(*                                                                         *)
(* obj is the sequence of its rows.  Python indices are kept as they are   *)
(* (0-based, negative ones counting from the end): row g of obj is         *)
(* obj[g + 1] here.  A dictionary is a function of its keys.               *)
(***************************************************************************)
MaxRows == 3          \* most rows of obj

MaxIndex == 2         \* most entries of an integer index array

RowValues == {"a", "b"}

\* the three kinds of slicer for an array of n rows: a boolean mask of n
\* entries, an integer index array (entries out of range included), and a
\* callable, given by the rows it keeps
Slicers(n) ==
    {[kind |-> "bool", mask |-> m] : m \in [1..n -> BOOLEAN]}
    \cup {[kind |-> "int", index |-> i] :
            i \in UNION {[1..k -> (0 - n - 1)..n] : k \in 0..MaxIndex}}
    \cup {[kind |-> "callable", keep |-> S] : S \in SUBSET RowValues}

\* obj[g] for a python index g
Row(o, g) == o[(IF g < 0 THEN Len(o) + g ELSE g) + 1]

\* np.where(mask)[0]: the indices of the True entries, increasing
Where(m) == SortedSeq({k - 1 : k \in {j \in DOMAIN m : m[j]}})

\* mutant of Arange: counts from 1
ArangeFromOne(n) == [k \in 1..n |-> k]

\* np.arange(n)
Arange(n) == [k \in 1..n |-> k - 1]

\* dict(zip(keys, vals)): zip stops at the shorter sequence, a key met again
\* takes the later value
DictZip(keys, vals) ==
    LET n == Smaller(Len(keys), Len(vals))
    IN [g \in {keys[k] : k \in 1..n} |->
           vals[SetMax({k \in 1..n : keys[k] = g})]]

\* obj[mask] for a boolean mask
TakeMask(o, m) == [k \in 1..Len(Where(m)) |-> Row(o, Where(m)[k])]

\* obj[index] raises IndexError for an index outside -len(obj)..len(obj)-1
OutOfBounds(o, index) ==
    \E k \in DOMAIN index : index[k] >= Len(o) \/ index[k] < 0 - Len(o)

SliceInit ==
    /\ pc = "slice_start"
    /\ method = "none"
    /\ ii = 0
    /\ locations = <<>>
    /\ obj \in UNION {[1..n -> RowValues] : n \in 0..MaxRows}
    /\ slicer \in Slicers(Len(obj))
    /\ sliced_object = <<>>
    /\ g2l = <<>>
    /\ SliceOthersIdle

\* lines 255-257: a boolean index array
SliceBoolean ==
    /\ pc = "slice_start"
    /\ slicer.kind = "bool"
    /\ sliced_object' = TakeMask(obj, slicer.mask)
    /\ g2l' = DictZip(Where(slicer.mask), Arange(Len(obj)))
    /\ pc' = "slice_done"
    /\ UNCHANGED <<method, ii, locations, obj, slicer>>
    /\ UNCHANGED notSlice

\* lines 258-260: an integer index array
SliceInteger ==
    /\ pc = "slice_start"
    /\ slicer.kind = "int"
    /\ IF OutOfBounds(obj, slicer.index)
          THEN /\ pc' = "slice_IndexError"
               /\ UNCHANGED <<sliced_object, g2l>>
          ELSE /\ sliced_object' =
                     [k \in DOMAIN slicer.index |-> Row(obj, slicer.index[k])]
               /\ g2l' = DictZip(slicer.index, Arange(Len(slicer.index)))
               /\ pc' = "slice_done"
    /\ UNCHANGED <<method, ii, locations, obj, slicer>>
    /\ UNCHANGED notSlice

\* lines 262-265: a callable; the name slicer is rebound to
\* np.array([slicer(k) for k in obj]), a boolean array unless obj has no
\* row: np.array([]) is a float64 array, and obj[slicer] refuses it
\* (IndexError: arrays used as indices must be of integer or boolean type)
SliceCallable ==
    /\ pc = "slice_start"
    /\ slicer.kind = "callable"
    /\ IF obj = <<>>
          THEN /\ slicer' = [kind |-> "float", index |-> <<>>]
               /\ pc' = "slice_IndexError"
               /\ UNCHANGED <<sliced_object, g2l>>
          ELSE /\ slicer' = [kind |-> "bool",
                             mask |-> [k \in DOMAIN obj |->
                                          obj[k] \in slicer.keep]]
               /\ sliced_object' = TakeMask(obj, slicer'.mask)
               /\ g2l' = DictZip(Where(slicer'.mask), Arange(Len(obj)))
               /\ pc' = "slice_done"
    /\ UNCHANGED <<method, ii, locations, obj>>
    /\ UNCHANGED notSlice

SliceNext == SliceBoolean \/ SliceInteger \/ SliceCallable

SpecSlice == SliceInit /\ [][SliceNext]_vars

\* the global row indices the slicer selects, as python indices
Selected ==
    IF slicer.kind = "int" THEN Range(slicer.index)
    ELSE Range(Where(slicer.mask))

\* the positions of the sliced array
LocalPositions == 0..(Len(sliced_object) - 1)

\* sliced[map[g]] is obj[g] for every selected g
MapsToSameRow ==
    \A g \in Selected :
        /\ g \in DOMAIN g2l
        /\ g2l[g] \in LocalPositions
        /\ sliced_object[g2l[g] + 1] = Row(obj, g)

\* C12 as stated: for every kind of slicer slice_and_map returns (IndexError
\* only for an integer index outside the array) a map that is a bijection
\* between the selected global row indices and the positions
\* 0..len(sliced)-1, with sliced[map[g]] equal to obj[g].
C12_Original ==
    /\ pc = "slice_IndexError" => slicer.kind = "int"
    /\ pc = "slice_done" =>
          /\ DOMAIN g2l = Selected
          /\ MapsToSameRow
          /\ \A g, h \in Selected : g2l[g] = g2l[h] => g = h
          /\ {g2l[g] : g \in Selected} = LocalPositions

\* C12, amended: whenever slice_and_map returns, the keys of the map are the
\* selected global row indices, the map is one-to-one and sliced[map[g]]
\* equals obj[g]; it is onto the positions 0..len(sliced)-1 for a boolean
\* mask, for a callable, and for an integer index array without repeated
\* entries (a repeated entry keeps the position of its last occurrence).
\* The call raises IndexError for an integer index outside the array and
\* for a callable applied to an array without rows, and only then.
C12_GlobalToLocal ==
    /\ pc = "slice_IndexError" =>
          \/ /\ slicer.kind = "int"
             /\ \E k \in DOMAIN slicer.index :
                   slicer.index[k] \notin (0 - Len(obj))..(Len(obj) - 1)
          \/ slicer.kind = "float" /\ obj = <<>>
    /\ pc = "slice_done" =>
          /\ DOMAIN g2l = Selected
          /\ MapsToSameRow
          /\ \A g, h \in Selected : g2l[g] = g2l[h] => g = h
          /\ slicer.kind = "int" =>
                \A k \in DOMAIN slicer.index :
                    g2l[slicer.index[k]] >= k - 1
          /\ (slicer.kind = "int" =>
                 \A j, k \in DOMAIN slicer.index :
                     slicer.index[j] = slicer.index[k] => j = k)
                => {g2l[g] : g \in Selected} = LocalPositions

\* the last two of three rows selected by a boolean mask
C12_Witness ==
    /\ pc = "slice_done"
    /\ slicer.kind = "bool"
    /\ Len(obj) = 3
    /\ DOMAIN g2l = {1, 2}
    /\ g2l[1] = 0
    /\ g2l[2] = 1
    /\ sliced_object = <<obj[2], obj[3]>>

(***************************************************************************)
(* OctreeDriver.octree_from_params, refine_tree_from_curve                 *)
(* (octree_creation/driver.py 44-120)                                      *)
(*                                                                         *)
(* The TreeMesh is the sequence of the calls it received and the number of *)
(* times it was finalized.  A call is a record: its name, the position of  *)
(* the entry of free_parameter_dict it serves (0 for none), its arguments  *)
(* and its finalize flag.                                                  *)
(***************************************************************************)
MaxLevels == 2        \* most numbers in a levels string

\* the keys of params.free_parameter_dict, in the order of the dictionary
RefinementLabels == <<"Refinement A", "Refinement B">>

\* what getattr(params, value["object"]) can be: nothing, a Curve, another
\* ObjectBase
RefinementObjects == {"None", "Curve", "Points"}

\* a levels string "1, 11" is the sequence of its comma separated pieces
LevelStrings ==
    UNION {[1..n -> {<<"1">>, <<"1", "1">>}] : n \in 0..MaxLevels}

\* geoh5py.ui_json.utils.str2list: the number of each piece
Str2List(pieces) == [k \in DOMAIN pieces |-> Decimal(pieces[k])]

IsObjectBase(object) == object \in {"Curve", "Points"}

\* line 47: max([1, treemesh.max_level - level + 1])
OctreeMinimumLevel(max_level, lvl) ==
    IF max_level - lvl + 1 > 1 THEN max_level - lvl + 1 ELSE 1

\* a call treemesh receives
Call(op, entry, args, fin) ==
    [op |-> op, entry |-> entry, args |-> args, finalize |-> fin]

\* treemesh after a call: a call with finalize=True finalizes it
Received(mesh, call) ==
    [mesh EXCEPT !.calls = Append(@, call),
                 !.finalized = IF call.finalize THEN @ + 1 ELSE @]

RECURSIVE ReceivedAll(_, _)
ReceivedAll(mesh, calls) ==
    IF calls = <<>> THEN mesh
    ELSE ReceivedAll(Received(mesh, Head(calls)), Tail(calls))

\* lines 111-116: distance after the shells 0..k
RECURSIVE CurveDistance(_, _, _)
CurveDistance(levels, h, k) ==
    IF k = 0 THEN 0
    ELSE CurveDistance(levels, h, k - 1) + levels[k] * h * (2 ^ (k - 1))

\* mutant of RefineTreeFromCurve: the last refine_ball finalizes
RefineTreeFromCurveFinalizing(mesh, entry, levels, fin) ==
    ReceivedAll(mesh,
        [k \in DOMAIN levels |->
            Call("refine_ball", entry,
                 <<CurveDistance(levels, mesh.h, k), mesh.max_level - (k - 1)>>,
                 k = Len(levels))])

\* lines 98-120: refine_tree_from_curve, one refine_ball per level
RefineTreeFromCurve(mesh, entry, levels, fin) ==
    ReceivedAll(mesh,
        [k \in DOMAIN levels |->
            Call("refine_ball", entry,
                 <<CurveDistance(levels, mesh.h, k), mesh.max_level - (k - 1)>>,
                 fin)])

OctreeInit ==
    /\ pc = "octree_start"
    /\ method = "none"
    /\ ii = 0
    /\ locations = <<>>
    /\ free_parameter_dict \in
          [DOMAIN RefinementLabels ->
              [object : RefinementObjects, levels : LevelStrings]]
    /\ level \in {1, 2, 4}
    /\ u_cell_size \in {1, 2}
    /\ treemesh = <<>>
    /\ octree = "nothing"
    /\ OctreeOthersIdle

octreeArgs == <<method, locations, free_parameter_dict, level, u_cell_size>>

\* lines 50-65: mesh_builder_xyz and the refinement to the minimum level;
\* the depth of the tree follows from the extent of the object
OctreeBuild ==
    /\ pc = "octree_start"
    /\ \E max_level \in {2, 3} :
         treemesh' =
            Received([max_level |-> max_level, h |-> u_cell_size,
                      calls |-> <<>>, finalized |-> 0],
                     Call("refine", 0,
                          <<OctreeMinimumLevel(max_level, level)>>, FALSE))
    /\ ii' = 0
    /\ pc' = "octree_loop"
    /\ UNCHANGED <<octree, octreeArgs>>
    /\ UNCHANGED notOctree

\* lines 67-71: the object of the entry is not an ObjectBase
OctreeSkip ==
    /\ pc = "octree_loop"
    /\ ii < Len(RefinementLabels)
    /\ ~ IsObjectBase(free_parameter_dict[ii + 1].object)
    /\ ii' = ii + 1
    /\ UNCHANGED <<pc, treemesh, octree, octreeArgs>>
    /\ UNCHANGED notOctree

\* lines 75-78: a Curve
OctreeCurve ==
    /\ pc = "octree_loop"
    /\ ii < Len(RefinementLabels)
    /\ free_parameter_dict[ii + 1].object = "Curve"
    /\ treemesh' =
          RefineTreeFromCurve(treemesh, ii + 1,
                              Str2List(free_parameter_dict[ii + 1].levels),
                              FALSE)
    /\ ii' = ii + 1
    /\ UNCHANGED <<pc, octree, octreeArgs>>
    /\ UNCHANGED notOctree

\* lines 80-90: any other object
OctreeXyz ==
    /\ pc = "octree_loop"
    /\ ii < Len(RefinementLabels)
    /\ IsObjectBase(free_parameter_dict[ii + 1].object)
    /\ free_parameter_dict[ii + 1].object # "Curve"
    /\ treemesh' =
          Received(treemesh,
                   Call("refine_tree_xyz", ii + 1,
                        Str2List(free_parameter_dict[ii + 1].levels), FALSE))
    /\ ii' = ii + 1
    /\ UNCHANGED <<pc, octree, octreeArgs>>
    /\ UNCHANGED notOctree

\* lines 92-93
OctreeFinalize ==
    /\ pc = "octree_loop"
    /\ ii = Len(RefinementLabels)
    /\ treemesh' = Received(treemesh, Call("finalize", 0, <<>>, TRUE))
    /\ pc' = "octree_convert"
    /\ UNCHANGED <<ii, octree, octreeArgs>>
    /\ UNCHANGED notOctree

\* lines 94-96
OctreeConvert ==
    /\ pc = "octree_convert"
    /\ treemesh' = Received(treemesh, Call("treemesh_2_octree", 0, <<>>, FALSE))
    /\ octree' = "Octree"
    /\ pc' = "octree_done"
    /\ UNCHANGED <<ii, octreeArgs>>
    /\ UNCHANGED notOctree

OctreeNext ==
    \/ OctreeBuild
    \/ OctreeSkip
    \/ OctreeCurve
    \/ OctreeXyz
    \/ OctreeFinalize
    \/ OctreeConvert

SpecOctree == OctreeInit /\ [][OctreeNext]_vars

\* C13: octree_from_params first refines the whole mesh to the minimum
\* level, then applies the refinements in the order of free_parameter_dict
\* (no call for an entry whose object is not an ObjectBase, refine_ball
\* calls of refine_tree_from_curve for a Curve, one refine_tree_xyz
\* otherwise), and finalizes the mesh exactly once, after the last
\* refinement and before the conversion to an Octree; no refinement call
\* finalizes the mesh.
C13_CallOrder ==
    pc # "octree_start" =>
        LET calls == treemesh.calls
            n == Len(calls)
            refinements ==
                {k \in 1..n : calls[k].op \in {"refine_ball", "refine_tree_xyz"}}
            served(e) == {k \in refinements : calls[k].entry = e}
        IN /\ calls[1].op = "refine"
           /\ calls[1].args[1] >= 1
           /\ calls[1].args[1] >= treemesh.max_level - level + 1
           /\ calls[1].args[1] \in {1, treemesh.max_level - level + 1}
           /\ \A k \in 2..n : calls[k].op # "refine"
           /\ \A k \in 1..n : calls[k].finalize <=> calls[k].op = "finalize"
           /\ treemesh.finalized = Cardinality({k \in 1..n : calls[k].finalize})
           /\ treemesh.finalized <= 1
           /\ \A j, k \in refinements :
                 j < k => calls[j].entry <= calls[k].entry
           /\ \A k \in refinements :
                 LET object == free_parameter_dict[calls[k].entry].object
                 IN /\ object # "None"
                    /\ calls[k].op = "refine_ball" <=> object = "Curve"
           /\ \A k \in 1..n :
                 calls[k].op \in {"finalize", "treemesh_2_octree"} =>
                     \A j \in refinements \cup {1} : j < k
           /\ pc = "octree_done" =>
                 /\ octree = "Octree"
                 /\ n >= 3
                 /\ calls[n].op = "treemesh_2_octree"
                 /\ calls[n - 1].op = "finalize"
                 /\ treemesh.finalized = 1
                 /\ \A e \in DOMAIN free_parameter_dict :
                       Cardinality(served(e)) =
                          IF free_parameter_dict[e].object = "Curve"
                             THEN Len(free_parameter_dict[e].levels)
                          ELSE IF free_parameter_dict[e].object = "None"
                             THEN 0 ELSE 1

\* a Curve with two levels, then another object: refine, two refine_ball,
\* one refine_tree_xyz, finalize, conversion
C13_Witness ==
    /\ pc = "octree_done"
    /\ free_parameter_dict[1].object = "Curve"
    /\ Len(free_parameter_dict[1].levels) = 2
    /\ free_parameter_dict[2].object = "Points"
    /\ Len(treemesh.calls) = 6
    /\ treemesh.calls[3].op = "refine_ball"
    /\ treemesh.calls[4].op = "refine_tree_xyz"
    /\ treemesh.finalized = 1

(***************************************************************************)
(* BaseJointDriver.validate_create_mesh (inversion/joint/driver.py         *)
(* 118-172)                                                                *)
(*                                                                         *)
(* A mesh is its origin, the size of its first cell and its number of      *)
(* cells along each of the three dimensions; origins are integers.  The    *)
(* origin of the Octree entity of a sub-driver and the origin of the       *)
(* TreeMesh made from it are the same numbers.                             *)
(***************************************************************************)
Dims == {1, 2, 3}

\* self.inversion_mesh.mesh
InversionMeshes ==
    {[origin |-> o, h |-> <<c, c, c>>, n |-> <<4, 4, 8>>] :
        o \in {<<0, 0, 0>>, <<1, 0, 0>>}, c \in {1, 2}}

\* driver.inversion_mesh of a sub-driver: the origin of its entity and
\* mesh, the cell size of driver.params.mesh, the deepest level of the tree
\* and the smallest level among its cells, and whether _mesh is cached
SubMeshes ==
    {[origin |-> o, cell_size |-> <<c, c, c>>, max_level |-> 4,
      min_level |-> l, mesh |-> "TreeMesh"] :
        o \in {<<0, 0, 0>>, <<1, 0, 0>>, <<4, 8, 0>>, <<12, 0, -4>>,
               <<2, 6, 0>>},
        c \in {1, 2}, l \in {1, 2}}

\* lines 141-149
BaseLevel(local_mesh) == local_mesh.max_level - 1 - local_mesh.min_level

\* line 152
BaseSize(mesh, local_mesh, dim) == mesh.h[dim] * (2 ^ BaseLevel(local_mesh))

\* np.log2 of a power of two
RECURSIVE Log2(_)
Log2(n) == IF n <= 1 THEN 0 ELSE 1 + Log2(n \div 2)

\* lines 153-159: origin + cumsum([0, base_size, ..., base_size]) with
\* log2(len(h[dim])) steps
Nodal(mesh, local_mesh, dim) ==
    [k \in 1..(Log2(mesh.n[dim]) + 1) |->
        mesh.origin[dim] + (k - 1) * BaseSize(mesh, local_mesh, dim)]

Abs(v) == IF v < 0 THEN 0 - v ELSE v

\* line 160: np.argmin(np.abs(nodal - origin[dim])), the first of the closest
Closest(nodal, at) ==
    SetMin({k \in DOMAIN nodal :
               \A j \in DOMAIN nodal : Abs(nodal[k] - at) <= Abs(nodal[j] - at)})

\* lines 150-161
Shift(mesh, local_mesh) ==
    [dim \in Dims |->
        LET nodal == Nodal(mesh, local_mesh, dim)
        IN nodal[Closest(nodal, local_mesh.origin[dim])]
              - local_mesh.origin[dim]]

\* lines 163-172: the entity moves by minus the shift and _mesh is dropped
Shifted(local_mesh, shift) ==
    IF \E dim \in Dims : shift[dim] # 0
       THEN [local_mesh EXCEPT
                !.origin = [dim \in Dims |-> @[dim] - shift[dim]],
                !.mesh = "None"]
       ELSE local_mesh

JointInit ==
    /\ pc = "joint_start"
    /\ method = "none"
    /\ ii = 0
    /\ locations = <<>>
    /\ params_mesh \in {"None", "Octree"}
    /\ inversion_mesh \in InversionMeshes
    /\ drivers \in UNION {[1..n -> SubMeshes] : n \in {1, 2}}
    /\ drivers_in = drivers
    /\ cell_size = <<>>
    /\ JointOthersIdle

\* lines 121-128: without a mesh, one is made from the sub-meshes
JointCreate ==
    /\ pc = "joint_start"
    /\ params_mesh' = "Octree"
    /\ cell_size' = <<>>
    /\ ii' = 0
    /\ pc' = "joint_loop"
    /\ UNCHANGED <<method, locations, inversion_mesh, drivers, drivers_in>>
    /\ UNCHANGED notJoint

\* lines 129-172: one sub-driver
JointDriver ==
    /\ pc = "joint_loop"
    /\ ii < Len(drivers)
    /\ LET local_mesh == drivers[ii + 1]
       IN IF cell_size # <<>> /\ cell_size # local_mesh.cell_size
             THEN /\ pc' = "joint_ValueError"
                  /\ UNCHANGED <<ii, cell_size, drivers>>
             ELSE /\ cell_size' = local_mesh.cell_size
                  /\ drivers' =
                        [drivers EXCEPT ![ii + 1] =
                            Shifted(local_mesh, Shift(inversion_mesh, local_mesh))]
                  /\ ii' = ii + 1
                  /\ UNCHANGED pc
    /\ UNCHANGED <<method, locations, params_mesh, inversion_mesh, drivers_in>>
    /\ UNCHANGED notJoint

\* the loop of line 129 has run over every sub-driver
JointReturn ==
    /\ pc = "joint_loop"
    /\ ii = Len(drivers)
    /\ pc' = "joint_done"
    /\ UNCHANGED <<method, ii, locations, jointVars>>
    /\ UNCHANGED notJoint

JointNext == JointCreate \/ JointDriver \/ JointReturn

SpecJoint == JointInit /\ [][JointNext]_vars

\* the origin lies on the grid of the inversion mesh at the base cell size
\* of the sub-mesh, in every dimension
OnNode(mesh, local_mesh) ==
    \A dim \in Dims :
        (local_mesh.origin[dim] - mesh.origin[dim])
            % (mesh.h[dim] * (2 ^ (local_mesh.max_level - 1
                                     - local_mesh.min_level))) = 0

\* C14: after validate_create_mesh the origin of every sub-driver mesh lies
\* in each dimension on a node of the inversion mesh grid at the base cell
\* size of the sub-mesh; a sub-mesh whose origin was already on such a node
\* has not moved, and a moved sub-mesh has its cached mesh reset.
C14_OriginsOnNodes ==
    pc = "joint_done" =>
        \A d \in DOMAIN drivers :
            /\ OnNode(inversion_mesh, drivers[d])
            /\ OnNode(inversion_mesh, drivers_in[d]) =>
                  drivers[d].origin = drivers_in[d].origin
            /\ drivers[d].origin # drivers_in[d].origin =>
                  drivers[d].mesh = "None"

(***************************************************************************)
(* JointSingleDriver.initialize (inversion/joint/single_property/driver.py *)
(* 66-101), called by the constructor (line 33)                            *)
(*                                                                         *)
(* A group is "None" or the physical property of the inversion its         *)
(* options describe (the PHYSICAL_PROPERTY of the params class that        *)
(* DRIVER_MAP gives for its inversion_type).                               *)
(***************************************************************************)
PhysicalProperties == {"density", "susceptibility", "conductivity"}

\* lines 75-80: the sub-driver of every group is built from the options of
\* group_a
SubDriverProperty(gs) == gs[1]

\* lines 90-92: get_local_actives (lines 53-64) is handed
\* driver.inversion_mesh where it expects the driver, and asks it for
\* .inversion_mesh.mesh: AttributeError unless the InversionMesh object
\* (its class is not part of the sources at hand) answers to that name
GetLocalActives == {"AttributeError", "actives"}

SingleInit ==
    /\ pc = "single_loop"
    /\ method = "none"
    /\ ii = 0
    /\ locations = <<>>
    /\ groups \in [1..3 -> PhysicalProperties \cup {"None"}]
    /\ sub_drivers = <<>>
    /\ physical_property = "None"
    /\ local_actives = <<>>
    /\ SingleOthersIdle

\* lines 71-73: a group that is None
SingleSkip ==
    /\ pc = "single_loop"
    /\ ii < Len(groups)
    /\ groups[ii + 1] = "None"
    /\ ii' = ii + 1
    /\ UNCHANGED <<pc, method, locations, singleVars>>
    /\ UNCHANGED notSingle

\* lines 75-93: a group that is not None
SingleGroup ==
    /\ pc = "single_loop"
    /\ ii < Len(groups)
    /\ groups[ii + 1] # "None"
    /\ IF groups[1] = "None"
          THEN \* self.params.group_a.options on None
               /\ pc' = "single_AttributeError"
               /\ UNCHANGED <<ii, sub_drivers, physical_property, local_actives>>
          ELSE IF physical_property = "None"
                  \/ SubDriverProperty(groups) = physical_property
             THEN /\ physical_property' = SubDriverProperty(groups)
                  /\ \E actives \in GetLocalActives :
                       IF actives = "AttributeError"
                          THEN /\ pc' = "single_AttributeError"
                               /\ UNCHANGED <<ii, sub_drivers, local_actives>>
                          ELSE /\ local_actives' = Append(local_actives, actives)
                               /\ sub_drivers' =
                                     Append(sub_drivers, SubDriverProperty(groups))
                               /\ ii' = ii + 1
                               /\ UNCHANGED pc
             ELSE /\ pc' = "single_ValueError"
                  /\ UNCHANGED <<ii, sub_drivers, physical_property,
                                 local_actives>>
    /\ UNCHANGED <<method, locations, groups>>
    /\ UNCHANGED notSingle

\* lines 95-99: maps.TileMap(mesh, active_cells, nested_mesh, ...) names
\* nothing the module defines or imports: NameError, line 101 is not reached
SingleTileMap ==
    /\ pc = "single_loop"
    /\ ii = Len(groups)
    /\ pc' = "single_NameError"
    /\ UNCHANGED <<method, ii, locations, singleVars>>
    /\ UNCHANGED notSingle

SingleNext == SingleSkip \/ SingleGroup \/ SingleTileMap

SpecSingle == SingleInit /\ [][SingleNext]_vars

SingleEnded ==
    pc \in {"single_ValueError", "single_AttributeError", "single_NameError"}

\* C15: constructing a JointSingleDriver whose groups that are not None hold
\* inversions of different physical properties raises ValueError('All
\* physical properties must be the same. ...').
C15_DifferentPropertiesRaise ==
    (/\ SingleEnded
     /\ \E a, b \in DOMAIN groups :
           groups[a] # "None" /\ groups[b] # "None" /\ groups[a] # groups[b])
        => pc = "single_ValueError"

====
